---- MODULE Spec2Model ----
(***************************************************************************)
(* A model of the caching layer of fractary/codex: CacheEntry,             *)
(* FileCacheStore (file-level steps of get / put / delete) and             *)
(* CacheManager.fetch, together with the pure helpers they call            *)
(* (generate_cache_key, _key_to_path, TypeRegistry.get_ttl).               *)
(*                                                                         *)
(* Conventions                                                             *)
(*   - a Python str that the code takes apart (paths, keys, patterns) is a *)
(*     sequence of one-character strings; other strs are TLA+ strings;     *)
(*   - bytes are sequences of naturals;                                    *)
(*   - Optional[T] is a sequence of length <= 1: None == <<>>, x == <<x>>; *)
(*   - a dict is a function whose domain is its set of keys;               *)
(*   - datetimes are naturals (ticks of the clock `now`).                  *)
(***************************************************************************)
EXTENDS Integers, Sequences, FiniteSets, TLC

(***************************************************************************)
(* Bounds of the model.                                                    *)
(***************************************************************************)
\* the clock runs from 0 to MaxTime
MaxTime == 2
\* calls on a key are cut off once its persisted hit count reaches MaxHits
MaxHits == 2
\* contents are the byte strings of length <= MaxLen over the bytes 1..2
MaxLen == 1
\* number of call slots (concurrent store calls / successive manager calls)
NumCalls == 3
\* number of writers among them when writers may die
NumWriters == 2

(***************************************************************************)
(* Optional values, dicts.                                                 *)
(***************************************************************************)
None == <<>>

Some(x) == <<x>>

\* dict.get(k, default)
Get(d, k, default) == IF k \in DOMAIN d THEN d[k] ELSE default

\* dict d updated with the items of dict u (u wins)
Update(d, u) == [k \in (DOMAIN d) \cup (DOMAIN u) |-> IF k \in DOMAIN u THEN u[k] ELSE d[k]]

\* Python truthiness of an Optional[str]: None and "" are falsy
TruthyStr(o) == o # None /\ o # <<"">>

\* Python truthiness of an Optional[datetime] (or of its ISO text): only None is falsy
TruthyTime(o) == o # None

(***************************************************************************)
(* str operations on sequences of characters.                              *)
(***************************************************************************)
S_StartsWith(s, pre) == Len(s) >= Len(pre) /\ SubSeq(s, 1, Len(pre)) = pre

S_Drop(s, n) == SubSeq(s, n + 1, Len(s))

S_Take(s, n) == SubSeq(s, 1, IF n < Len(s) THEN n ELSE Len(s))

\* s.replace(a, b) for single characters a, b
S_Replace(s, a, b) == [i \in 1..Len(s) |-> IF s[i] = a THEN b ELSE s[i]]

RECURSIVE S_LStrip(_, _)
\* s.lstrip(chars), chars a set of characters
S_LStrip(s, chars) ==
  IF s # <<>> /\ Head(s) \in chars THEN S_LStrip(Tail(s), chars) ELSE s

RECURSIVE S_RStrip(_, _)
S_RStrip(s, chars) ==
  IF s # <<>> /\ s[Len(s)] \in chars THEN S_RStrip(SubSeq(s, 1, Len(s) - 1), chars) ELSE s

Whitespace == {" ", "\t", "\n", "\r"}

\* s.strip()
S_Strip(s) == S_RStrip(S_LStrip(s, Whitespace), Whitespace)

RECURSIVE S_SplitAcc(_, _, _, _, _)
\* the parts of s split at character c, at most n splits (n < 0: no limit)
S_SplitAcc(s, c, n, cur, acc) ==
  IF s = <<>> THEN Append(acc, cur)
  ELSE IF n = 0 THEN Append(acc, cur \o s)
  ELSE IF Head(s) = c THEN S_SplitAcc(Tail(s), c, n - 1, <<>>, Append(acc, cur))
  ELSE S_SplitAcc(Tail(s), c, n, Append(cur, Head(s)), acc)

\* s.split(c): the stretches of s between its occurrences of c, in order
S_Split(s, c) ==
  LET seps == {i \in 1..Len(s) : s[i] = c}
      n == Cardinality(seps)
      at(k) == IF k = 0 THEN 0
               ELSE IF k = n + 1 THEN Len(s) + 1
               ELSE CHOOSE i \in seps : Cardinality({j \in seps : j <= i}) = k
  IN [k \in 1..(n + 1) |-> SubSeq(s, at(k - 1) + 1, at(k) - 1)]

\* s.split(c, n)
S_SplitN(s, c, n) == S_SplitAcc(s, c, n, <<>>, <<>>)

RECURSIVE S_Join(_, _)
\* sep.join(parts)
S_Join(parts, sep) ==
  IF parts = <<>> THEN <<>>
  ELSE IF Len(parts) = 1 THEN parts[1]
  ELSE parts[1] \o sep \o S_Join(Tail(parts), sep)

\* sub in s
S_Contains(s, sub) ==
  \E i \in 1..(Len(s) - Len(sub) + 1) : SubSeq(s, i, i + Len(sub) - 1) = sub

RECURSIVE FnMatch(_, _)
\* fnmatch.fnmatch(name, pat) for patterns built from literals, '*' and '?'
\* ('*' matches any run of characters, '/' included; no registered pattern
\* holds a bracket expression)
FnMatch(name, pat) ==
  IF pat = <<>> THEN name = <<>>
  ELSE IF Head(pat) = "*"
    THEN FnMatch(name, Tail(pat)) \/ (name # <<>> /\ FnMatch(Tail(name), pat))
  ELSE IF name = <<>> THEN FALSE
  ELSE IF Head(pat) = "?" THEN FnMatch(Tail(name), Tail(pat))
  ELSE Head(name) = Head(pat) /\ FnMatch(Tail(name), Tail(pat))

(***************************************************************************)
(* types/builtin.py, types/registry.py: TTL by artifact type.              *)
(***************************************************************************)
TTL_HOUR == 3600

TTL_DAY == 86400

TTL_WEEK == 604800

TTL_SIX_HOURS == 21600

TTL_TWELVE_HOURS == 43200

\* DEFAULT_TTL: int = TTL.DAY
DEFAULT_TTL == TTL_DAY

\* the built-in types, in the insertion order of the dict
BUILT_IN_TYPES ==
  <<
  [name |-> "docs", ttl |-> TTL_DAY, priority |-> 10, patterns |-> <<
        <<"d","o","c","s","/","*","*","/","*",".","m","d">>,
        <<"d","o","c","s","/","*","*","/","*",".","m","d","x">>,
        <<"*",".","m","d">>>>],
  [name |-> "config", ttl |-> TTL_HOUR, priority |-> 20, patterns |-> <<
        <<"*",".","y","a","m","l">>,
        <<"*",".","y","m","l">>,
        <<"*",".","j","s","o","n">>,
        <<"*",".","t","o","m","l">>,
        <<".","f","r","a","c","t","a","r","y","/","*","*">>,
        <<"c","o","n","f","i","g","/","*","*">>>>],
  [name |-> "schema", ttl |-> TTL_DAY, priority |-> 30, patterns |-> <<
        <<"s","c","h","e","m","a","s","/","*","*","/","*",".","j","s","o","n">>,
        <<"s","c","h","e","m","a","s","/","*","*","/","*",".","y","a","m","l">>,
        <<"*","*","/","*",".","s","c","h","e","m","a",".","j","s","o","n">>,
        <<"*","*","/","*",".","s","c","h","e","m","a",".","y","a","m","l">>>>],
  [name |-> "templates", ttl |-> TTL_WEEK, priority |-> 15, patterns |-> <<
        <<"t","e","m","p","l","a","t","e","s","/","*","*","/","*">>,
        <<"*","*","/","*",".","t","e","m","p","l","a","t","e",".","*">>,
        <<"*","*","/","*",".","t","m","p","l">>>>],
  [name |-> "specs", ttl |-> TTL_DAY, priority |-> 25, patterns |-> <<
        <<"s","p","e","c","s","/","*","*","/","*",".","m","d">>,
        <<"s","p","e","c","i","f","i","c","a","t","i","o","n","s","/","*","*","/","*",".","m","d">>>>],
  [name |-> "workflows", ttl |-> TTL_SIX_HOURS, priority |-> 40, patterns |-> <<
        <<".","g","i","t","h","u","b","/","w","o","r","k","f","l","o","w","s","/","*","*","/","*",".","y","a","m","l">>,
        <<".","g","i","t","h","u","b","/","w","o","r","k","f","l","o","w","s","/","*","*","/","*",".","y","m","l">>>>],
  [name |-> "scripts", ttl |-> TTL_TWELVE_HOURS, priority |-> 35, patterns |-> <<
        <<"s","c","r","i","p","t","s","/","*","*","/","*",".","s","h">>,
        <<"s","c","r","i","p","t","s","/","*","*","/","*",".","p","y">>,
        <<"b","i","n","/","*","*","/","*">>>>],
  [name |-> "prompts", ttl |-> TTL_HOUR, priority |-> 50, patterns |-> <<
        <<"p","r","o","m","p","t","s","/","*","*","/","*",".","m","d">>,
        <<"p","r","o","m","p","t","s","/","*","*","/","*",".","t","x","t">>,
        <<"*","*","/","*",".","p","r","o","m","p","t",".","m","d">>>>],
  [name |-> "agents", ttl |-> TTL_HOUR, priority |-> 45, patterns |-> <<
        <<"a","g","e","n","t","s","/","*","*","/","*">>,
        <<"*","*","/","*",".","a","g","e","n","t",".","y","a","m","l">>,
        <<"*","*","/","*",".","a","g","e","n","t",".","m","d">>>>],
  [name |-> "skills", ttl |-> TTL_HOUR, priority |-> 45, patterns |-> <<
        <<"s","k","i","l","l","s","/","*","*","/","*">>,
        <<"*","*","/","*",".","s","k","i","l","l",".","y","a","m","l">>,
        <<"*","*","/","*",".","s","k","i","l","l",".","m","d">>>>]
  >>

RECURSIVE InsertByPriority(_, _)
\* t inserted into a list sorted by descending priority, after its equals
InsertByPriority(sorted, t) ==
  IF sorted = <<>> THEN <<t>>
  ELSE IF Head(sorted).priority >= t.priority
    THEN <<Head(sorted)>> \o InsertByPriority(Tail(sorted), t)
  ELSE <<t>> \o sorted

RECURSIVE SortedTypes(_)
\* sorted(types, key=lambda t: -t.priority): a stable sort
SortedTypes(types) ==
  IF types = <<>> THEN <<>>
  ELSE InsertByPriority(SortedTypes(SubSeq(types, 1, Len(types) - 1)), types[Len(types)])

RECURSIVE MatchParts(_, _)
\* _match_parts(path_parts, pattern_parts)
MatchParts(path_parts, pattern_parts) ==
  IF pattern_parts = <<>> THEN path_parts = <<>>
  ELSE IF path_parts = <<>>
    THEN \A i \in 1..Len(pattern_parts) : pattern_parts[i] = <<"*","*">>
  ELSE IF Head(pattern_parts) = <<"*","*">>
    THEN IF Len(pattern_parts) = 1 THEN TRUE
         ELSE \E i \in 0..Len(path_parts) :
                MatchParts(S_Drop(path_parts, i), Tail(pattern_parts))
  ELSE IF FnMatch(Head(path_parts), Head(pattern_parts))
    THEN MatchParts(Tail(path_parts), Tail(pattern_parts))
  ELSE FALSE

\* _glob_match(path, pattern)
GlobMatch(path, pattern) == MatchParts(S_Split(path, "/"), S_Split(pattern, "/"))

\* TypeRegistry._matches_patterns(path, patterns)
MatchesPatterns(path, patterns) ==
  \E i \in 1..Len(patterns) :
    IF S_Contains(patterns[i], <<"*","*">>)
      THEN GlobMatch(path, patterns[i])
      ELSE FnMatch(path, patterns[i])

\* TypeRegistry.register(type_def) on the dict of types, kept as the list of
\* its values in insertion order: a name already there keeps its place
RegisterType(types, type_def) ==
  IF \E i \in 1..Len(types) : types[i].name = type_def.name
    THEN [i \in 1..Len(types) |-> IF types[i].name = type_def.name THEN type_def ELSE types[i]]
    ELSE Append(types, type_def)

\* TypeRegistry.unregister(name): the dict without the name
UnregisterType(types, name) == SelectSeq(types, LAMBDA t : t.name # name)

\* a scan in the order of registration
RegistryMatch_Unsorted(types, path) ==
  LET normalized_path == S_LStrip(S_Replace(path, "\\", "/"), {"/"})
      hits == {i \in 1..Len(types) : MatchesPatterns(normalized_path, types[i].patterns)}
  IN IF hits = {} THEN None
     ELSE Some(types[CHOOSE i \in hits : \A j \in hits : i <= j])

\* TypeRegistry.match(path): Some(first matching type by priority) or None
RegistryMatch(types, path) ==
  LET normalized_path == S_LStrip(S_Replace(path, "\\", "/"), {"/"})
      sorted == SortedTypes(types)
      hits == {i \in 1..Len(sorted) : MatchesPatterns(normalized_path, sorted[i].patterns)}
  IN IF hits = {} THEN None
     ELSE Some(sorted[CHOOSE i \in hits : \A j \in hits : i <= j])

\* TypeRegistry.get_ttl(path)
RegistryGetTtl(types, path) ==
  LET matched_type == RegistryMatch(types, path)
  IN IF matched_type # None THEN matched_type[1].ttl ELSE DEFAULT_TTL

(***************************************************************************)
(* cache/entry.py: CacheEntry.                                             *)
(***************************************************************************)
\* contents: the byte strings of length <= MaxLen over the bytes 1..2
Contents == UNION {[1..n -> 1..2] : n \in 0..MaxLen}

\* hashlib.md5(content).hexdigest(): distinct contents of the model have
\* distinct digests
Md5(content) == [md5 |-> content]

\* datetime.isoformat() and datetime.fromisoformat()
IsoFormat(t) == [iso |-> t]

FromIsoFormat(text) == text.iso

\* a text datetime.fromisoformat rejects with ValueError, and the test for it
BadIsoText == [iso |-> 0 - 1]

IsoParses(text) == text.iso >= 0

\* a constructor that derives nothing
PostInit_Bare(e) == e

\* CacheEntry.__post_init__
PostInit(e) ==
  LET size == IF e.size = 0 /\ e.content # <<>> THEN Len(e.content) ELSE e.size
      expires_at == IF e.expires_at = None /\ e.ttl > 0
                      THEN Some(e.fetched_at + e.ttl)
                      ELSE e.expires_at
  IN [e EXCEPT !.size = size, !.expires_at = expires_at]

\* CacheEntry(key=..., content=..., ...) with every field given
CacheEntry(key, content, content_type, encoding, etag, last_modified, fetched_at, expires_at, ttl, size, metadata, hit_count, source) ==
  PostInit([key |-> key, content |-> content, content_type |-> content_type,
            encoding |-> encoding, etag |-> etag, last_modified |-> last_modified,
            fetched_at |-> fetched_at, expires_at |-> expires_at, ttl |-> ttl,
            size |-> size, metadata |-> metadata, hit_count |-> hit_count,
            source |-> source])

\* an is_expired that holds of every entry
IsExpired_Always(e, t) == TRUE

\* CacheEntry.is_expired at clock time t
IsExpired(e, t) == IF e.expires_at = None THEN FALSE ELSE t >= e.expires_at[1]

\* CacheEntry.is_fresh
IsFresh(e, t) == ~IsExpired(e, t)

\* CacheEntry.age
Age(e, t) == t - e.fetched_at

\* CacheEntry.content_hash
ContentHash(e) == Md5(e.content)

\* a hit that is not counted
RecordHit_NoCount(e) == e

\* CacheEntry.record_hit
RecordHit(e) == [e EXCEPT !.hit_count = @ + 1]

\* a refresh that leaves the entry's window where it was
Refresh_KeepWindow(e, new_content, new_ttl, t) ==
  [e EXCEPT !.content = new_content, !.size = Len(new_content)]

\* CacheEntry.refresh(new_content, new_ttl) at clock time t
Refresh(e, new_content, new_ttl, t) ==
  LET ttl == IF new_ttl # None THEN new_ttl[1] ELSE e.ttl
  IN [e EXCEPT !.content = new_content,
               !.size = Len(new_content),
               !.fetched_at = t,
               !.ttl = ttl,
               !.expires_at = IF ttl > 0 THEN Some(t + ttl) ELSE None]

\* a to_dict that writes every hit count as 0
ToDict_NoHitCount(e) ==
  [key |-> e.key,
   content_type |-> e.content_type,
   encoding |-> e.encoding,
   etag |-> e.etag,
   last_modified |-> IF e.last_modified # None THEN Some(IsoFormat(e.last_modified[1])) ELSE None,
   fetched_at |-> Some(IsoFormat(e.fetched_at)),
   expires_at |-> IF e.expires_at # None THEN Some(IsoFormat(e.expires_at[1])) ELSE None,
   ttl |-> e.ttl,
   size |-> e.size,
   metadata |-> e.metadata,
   hit_count |-> 0,
   source |-> e.source,
   content_hash |-> Some(ContentHash(e))]

\* CacheEntry.to_dict: the metadata record that json.dumps writes
ToDict(e) ==
  [key |-> e.key,
   content_type |-> e.content_type,
   encoding |-> e.encoding,
   etag |-> e.etag,
   last_modified |-> IF e.last_modified # None THEN Some(IsoFormat(e.last_modified[1])) ELSE None,
   fetched_at |-> Some(IsoFormat(e.fetched_at)),
   expires_at |-> IF e.expires_at # None THEN Some(IsoFormat(e.expires_at[1])) ELSE None,
   ttl |-> e.ttl,
   size |-> e.size,
   metadata |-> e.metadata,
   hit_count |-> e.hit_count,
   source |-> e.source,
   content_hash |-> Some(ContentHash(e))]

\* CacheEntry.from_dict(data, content) at clock time t; data has the key "key"
FromDict(data, content, t) ==
  LET last_modified == IF TruthyTime(Get(data, "last_modified", None))
                         THEN Some(FromIsoFormat(data.last_modified[1])) ELSE None
      fetched_at == IF TruthyTime(Get(data, "fetched_at", None))
                      THEN FromIsoFormat(data.fetched_at[1]) ELSE t
      expires_at == IF TruthyTime(Get(data, "expires_at", None))
                      THEN Some(FromIsoFormat(data.expires_at[1])) ELSE None
  IN CacheEntry(data.key, content,
                Get(data, "content_type", "application/octet-stream"),
                Get(data, "encoding", Some("utf-8")),
                Get(data, "etag", None),
                last_modified, fetched_at, expires_at,
                Get(data, "ttl", TTL_HOUR),
                Get(data, "size", Len(content)),
                Get(data, "metadata", <<>>),
                Get(data, "hit_count", 0),
                Get(data, "source", None))

\* the exception CacheEntry.from_dict(data, content) raises on a dict, "" when
\* it raises none: the three timestamps are parsed before data["key"] is read
FromDictError(data) ==
  IF \E k \in {"last_modified", "fetched_at", "expires_at"} :
       TruthyTime(Get(data, k, None)) /\ ~IsoParses(Get(data, k, None)[1])
    THEN "ValueError"
  ELSE IF "key" \notin DOMAIN data THEN "KeyError"
  ELSE ""

\* generate_cache_key(path, provider)
GenerateCacheKey(path, provider) ==
  LET stripped == S_Strip(path)
      prefixes == << <<"c","o","d","e","x",":","/","/">>,
                     <<"h","t","t","p",":","/","/">>,
                     <<"h","t","t","p","s",":","/","/">>,
                     <<"f","i","l","e",":","/","/">> >>
      found == {i \in 1..Len(prefixes) : S_StartsWith(stripped, prefixes[i])}
      unprefixed == IF found = {} THEN stripped
                    ELSE S_Drop(stripped, Len(prefixes[CHOOSE i \in found : \A j \in found : i <= j]))
      slashed == S_Replace(unprefixed, "\\", "/")
      spaced == IF TruthyStr(provider) THEN provider[1] \o <<"/">> \o slashed ELSE slashed
  IN S_LStrip(spaced, {"/"})

(***************************************************************************)
(* cache/persistence.py: FileCacheStore, paths.                            *)
(***************************************************************************)
\* max_key_length: int = 200
MaxKeyLength == 200

HexDigits == <<"0","1","2","3","4","5","6","7","8","9","a","b","c","d","e","f">>

\* hashlib.sha256(key.encode()).hexdigest()[:16]: sixteen hex digits fixed by
\* the key (a stand-in digest: only its alphabet and its length are meant)
Sha256Hex16(key) ==
  [i \in 1..16 |-> HexDigits[((Len(key) * i + Cardinality({j \in 1..Len(key) : key[j] = "/"})) % 16) + 1]]

UnsafeChars == {"<", ">", ":", "\"", "|", "?", "*"}

\* a mapping that keeps every directory level of the key
KeyToPath_Unflattened(key) ==
  IF Len(key) > MaxKeyLength
    THEN S_Replace(S_Replace(S_Take(key, 50), "/", "_"), "\\", "_") \o <<"_">> \o Sha256Hex16(key)
    ELSE [i \in 1..Len(key) |-> IF key[i] \in UnsafeChars THEN "_" ELSE key[i]]

\* FileCacheStore._key_to_path(key)
KeyToPath(key) ==
  IF Len(key) > MaxKeyLength
    THEN S_Replace(S_Replace(S_Take(key, 50), "/", "_"), "\\", "_") \o <<"_">> \o Sha256Hex16(key)
    ELSE LET safe == [i \in 1..Len(key) |-> IF key[i] \in UnsafeChars THEN "_" ELSE key[i]]
             parts == S_Split(safe, "/")
             flat == IF Len(parts) > 4
                       THEN SubSeq(parts, 1, 2) \o <<S_Join(S_Drop(parts, 2), <<"_">>)>>
                       ELSE parts
         IN S_Join(flat, <<"/">>)

CONTENT_EXT == <<".","d","a","t","a">>

META_EXT == <<".","m","e","t","a">>

\* FileCacheStore._get_paths(key), relative to cache_dir
ContentPath(key) == KeyToPath(key) \o CONTENT_EXT

MetaPath(key) == KeyToPath(key) \o META_EXT

\* Path.parent, relative to cache_dir; cache_dir itself is <<>>
ParentDir(path) ==
  LET slashes == {i \in 1..Len(path) : path[i] = "/"}
  IN IF slashes = {} THEN <<>>
     ELSE SubSeq(path, 1, (CHOOSE i \in slashes : \A j \in slashes : j <= i) - 1)

\* the directories above path, below cache_dir
Ancestors(path) ==
  {SubSeq(path, 1, i - 1) : i \in {j \in 2..Len(path) : path[j] = "/"}}

(***************************************************************************)
(* State.                                                                  *)
(*   now           the clock                                               *)
(*   files         the files under cache_dir: path -> [bytes, json, whole] *)
(*                 (bytes: the bytes of a content file; json: the dict a   *)
(*                 metadata file's text encodes; whole: the text or bytes  *)
(*                 were written to their end)                              *)
(*   dirs          the directories under cache_dir                         *)
(*   calls         the calls in progress, one record per call slot         *)
(*                 (pre, had, requests, prev: what the call found when it  *)
(*                 began and what it asked, kept for the properties)       *)
(*   last_replace  the slot whose os.replace landed last (0: none yet)     *)
(*   mgr           the CacheManager's own fields                           *)
(***************************************************************************)
VARIABLES now, files, dirs, calls, last_replace, mgr

vars == <<now, files, dirs, calls, last_replace, mgr>>

CallIds == 1..NumCalls

\* a call slot before its call starts and after its result is taken
IdleCall ==
  [op |-> "idle", pc |-> "idle", stack |-> <<>>, err |-> "",
   key |-> <<>>, entry |-> None, doc |-> None, ret |-> None,
   aw |-> "", deleted |-> FALSE, parent |-> <<>>,
   path |-> <<>>, force_refresh |-> FALSE, ttl |-> None,
   pre |-> None, requests |-> <<>>, fetched |-> None, result |-> None,
   prev |-> None, fault |-> "", todo |-> <<>>, found |-> <<>>, count |-> 0,
   answer |-> FALSE, loop |-> "", had |-> {}, storage |-> ""]

\* the slot of a call whose process died
DeadCall == [IdleCall EXCEPT !.op = "dead", !.pc = "dead"]

\* return from the current function to the frame on top of the stack
Return(r) ==
  IF r.stack = <<>> THEN [r EXCEPT !.pc = "done"]
  ELSE [r EXCEPT !.pc = Head(r.stack), !.stack = Tail(r.stack)]

\* an exception no frame of the call catches
Raise(r, code) == [r EXCEPT !.pc = "done", !.stack = <<>>, !.err = code]

\* call function f (its first step is pc), coming back at pc `back`
Call(r, pc, back) == [r EXCEPT !.pc = pc, !.stack = <<back>> \o @]

\* what the bytes/text handed to _atomic_write are: content bytes, or the
\* JSON text of a dict
BytesPayload(content) == [bytes |-> content, json |-> None]

JsonPayload(d) == [bytes |-> <<>>, json |-> Some(d)]

\* the number of places a write of the payload can stop short at (a JSON
\* text cut anywhere does not parse: one place stands for them all)
PayloadLen(d) == IF d.json = None THEN Len(d.bytes) ELSE Len(d.json)

\* the file that holds the first n units of payload d
Written(d, n) ==
  [bytes |-> S_Take(d.bytes, n), json |-> d.json, whole |-> (n = PayloadLen(d))]

Digits == <<"1","2","3","4","5","6","7","8","9">>

\* tempfile.mkstemp(dir=path.parent, suffix=".tmp"): a name no other call has
TempPath(path, c) ==
  LET dir == ParentDir(path)
  IN (IF dir = <<>> THEN <<>> ELSE dir \o <<"/">>) \o <<"t","m","p",Digits[c],".","t","m","p">>

\* a write that skips the temporary file and writes the final path in place
WritePath_InPlace(path, c) == path

\* the path _atomic_write writes the bytes to before the rename
WritePath(path, c) == TempPath(path, c)

\* the file and the payload of the _atomic_write the call is in
AwTarget(r) == IF r.aw = "data" THEN ContentPath(r.key) ELSE MetaPath(r.key)

AwPayload(r) ==
  IF r.aw = "data" THEN BytesPayload(r.entry[1].content)
  ELSE JsonPayload(ToDict(r.entry[1]))

\* files without the file at path
Unlink(fs, path) == [q \in (DOMAIN fs) \ {path} |-> fs[q]]

\* files with file f at path
WriteFile(fs, path, f) == [q \in (DOMAIN fs) \cup {path} |-> IF q = path THEN f ELSE fs[q]]

\* the directory holds no file and no directory
DirEmpty(dir) ==
  /\ \A q \in DOMAIN files : ParentDir(q) # dir
  /\ \A d \in dirs : ParentDir(d) # dir

\* a get that never compares the digests
HashMismatch_Unchecked(doc, entry) == FALSE

\* a get that finds every digest different
HashMismatch_Always(doc, entry) == TRUE

\* entry.content_hash != metadata["content_hash"], when the dict has a digest
HashMismatch(doc, entry) ==
  /\ Get(doc, "content_hash", None) # None
  /\ ContentHash(entry) # doc.content_hash[1]

(***************************************************************************)
(* FileCacheStore.put, step by step.                                       *)
(***************************************************************************)
\* put(entry) is called on the store
PutCall(c, e) ==
  /\ calls[c].op = "idle"
  /\ \A b \in 1..(c - 1) : calls[b].op # "idle"
  /\ calls' = [calls EXCEPT ![c] =
       [IdleCall EXCEPT !.op = "put", !.pc = "put_mkdir", !.key = e.key, !.entry = Some(e)]]
  /\ UNCHANGED <<now, files, dirs, last_replace, mgr>>

\* content_path.parent.mkdir(parents=True, exist_ok=True)
PutMkdir(c) ==
  LET r == calls[c] IN
  /\ r.pc = "put_mkdir"
  /\ dirs' = dirs \cup Ancestors(ContentPath(r.key))
  /\ calls' = [calls EXCEPT ![c] = [r EXCEPT !.pc = "aw_write", !.aw = "data"]]
  /\ UNCHANGED <<now, files, last_replace, mgr>>

\* _atomic_write: mkstemp, os.write, os.close
AtomicWriteTemp(c) ==
  LET r == calls[c]
      target == AwTarget(r)
      d == AwPayload(r)
  IN
  /\ r.pc = "aw_write"
  /\ IF ParentDir(target) # <<>> /\ ParentDir(target) \notin dirs
       THEN \* mkstemp raises FileNotFoundError; put turns the OSError into CacheError
            /\ calls' = [calls EXCEPT ![c] = Raise(r, "WRITE_ERROR")]
            /\ UNCHANGED files
       ELSE /\ files' = WriteFile(files, WritePath(target, c), Written(d, PayloadLen(d)))
            /\ calls' = [calls EXCEPT ![c] = [r EXCEPT !.pc = "aw_replace"]]
  /\ UNCHANGED <<now, dirs, last_replace, mgr>>

\* _atomic_write: os.replace(temp_path, path); then put goes on to the
\* metadata file, or returns
AtomicWriteReplace(c) ==
  LET r == calls[c]
      target == AwTarget(r)
      temp == WritePath(target, c)
  IN
  /\ r.pc = "aw_replace"
  /\ files' = WriteFile(Unlink(files, temp), target, files[temp])
  /\ last_replace' = c
  /\ calls' = [calls EXCEPT ![c] =
       IF r.aw = "data" THEN [r EXCEPT !.pc = "aw_write", !.aw = "meta"]
       ELSE Return([r EXCEPT !.aw = ""])]
  /\ UNCHANGED <<now, dirs, mgr>>

\* _atomic_write: os.write raises OSError (no space left, say); the handler
\* closes the descriptor and unlinks the temporary file, and put raises
\* CacheError WRITE_ERROR
AtomicWriteFails(c) ==
  LET r == calls[c]
      target == AwTarget(r)
  IN
  /\ r.pc = "aw_write"
  /\ ParentDir(target) # <<>> => ParentDir(target) \in dirs
  /\ calls' = [calls EXCEPT ![c] = Raise(r, "WRITE_ERROR")]
  /\ UNCHANGED <<now, files, dirs, last_replace, mgr>>

\* _atomic_write: os.replace raises OSError; the handler's os.close(fd), on
\* the descriptor already closed, raises OSError before the unlink is
\* reached: the temporary file stays, and put raises CacheError WRITE_ERROR
AtomicReplaceFails(c) ==
  LET r == calls[c] IN
  /\ r.pc = "aw_replace"
  /\ calls' = [calls EXCEPT ![c] = Raise(r, "WRITE_ERROR")]
  /\ UNCHANGED <<now, files, dirs, last_replace, mgr>>

\* the process dies inside os.write: the first n bytes are in the file
CrashInWrite(c) ==
  LET r == calls[c]
      target == AwTarget(r)
      d == AwPayload(r)
  IN
  /\ r.pc = "aw_write"
  /\ ParentDir(target) # <<>> => ParentDir(target) \in dirs
  /\ \E n \in 0..(PayloadLen(d) - 1) :
       files' = WriteFile(files, WritePath(target, c), Written(d, n))
  /\ calls' = [calls EXCEPT ![c] = DeadCall]
  /\ UNCHANGED <<now, dirs, last_replace, mgr>>

\* the process dies between two steps of a put
CrashInPut(c) ==
  LET r == calls[c] IN
  /\ r.pc \in {"put_mkdir", "aw_write", "aw_replace"}
  /\ calls' = [calls EXCEPT ![c] = DeadCall]
  /\ UNCHANGED <<now, files, dirs, last_replace, mgr>>

(***************************************************************************)
(* FileCacheStore.delete, step by step.                                    *)
(***************************************************************************)
\* delete returns to its caller; get, its only caller that goes on, returns None
AfterDelete(r) ==
  LET cleared == [r EXCEPT !.parent = <<>>]
  IN IF r.stack # <<>> /\ Head(r.stack) = "get_none"
       THEN Return([cleared EXCEPT !.stack = Tail(@), !.ret = None, !.doc = None,
                                   !.deleted = FALSE])
       ELSE Return(cleared)

\* a loop that does not stop at cache_dir
AtCacheDir_Never(parent) == FALSE

\* the end of `while parent != self.cache_dir`
AtCacheDir(parent) == parent = <<>>

\* delete(key): content_path.exists() and unlink
DeleteData(c) ==
  LET r == calls[c]
      path == ContentPath(r.key)
  IN
  /\ r.pc = "del_data"
  /\ files' = IF path \in DOMAIN files THEN Unlink(files, path) ELSE files
  /\ calls' = [calls EXCEPT ![c] =
       [r EXCEPT !.pc = "del_meta", !.deleted = (path \in DOMAIN files)]]
  /\ UNCHANGED <<now, dirs, last_replace, mgr>>

\* delete(key): meta_path.exists() and unlink; then the first parent to remove
DeleteMeta(c) ==
  LET r == calls[c]
      path == MetaPath(r.key)
      parent == ParentDir(ContentPath(r.key))
      r1 == [r EXCEPT !.deleted = (@ \/ path \in DOMAIN files)]
  IN
  /\ r.pc = "del_meta"
  /\ files' = IF path \in DOMAIN files THEN Unlink(files, path) ELSE files
  /\ calls' = [calls EXCEPT ![c] =
       IF AtCacheDir(parent) THEN AfterDelete(r1)
       ELSE [r1 EXCEPT !.pc = "del_rmdir", !.parent = parent]]
  /\ UNCHANGED <<now, dirs, last_replace, mgr>>

\* delete(key): parent.rmdir(), which removes only an empty directory; the
\* loop ends at cache_dir or at the first OSError
DeleteRmdir(c) ==
  LET r == calls[c]
      removable == r.parent \in dirs /\ DirEmpty(r.parent)
      up == ParentDir(r.parent)
  IN
  /\ r.pc = "del_rmdir"
  /\ dirs' = IF removable THEN dirs \ {r.parent} ELSE dirs
  /\ calls' = [calls EXCEPT ![c] =
       IF removable /\ ~AtCacheDir(up) THEN [r EXCEPT !.parent = up]
       ELSE AfterDelete(r)]
  /\ UNCHANGED <<now, files, last_replace, mgr>>

(***************************************************************************)
(* FileCacheStore.get, step by step.                                       *)
(***************************************************************************)
\* bytes.decode(): of the bytes of the model, those below 128 are characters
Utf8Decodable(bytes) == \A i \in 1..Len(bytes) : bytes[i] < 128

\* the byte strings that are the JSON text of a number ("7")
JsonNumberTexts == {<<55>>}

\* the exception meta_path.read_text() and json.loads raise on the file at
\* path, "" when they raise none
MetaReadError(fs, path) ==
  IF path \notin DOMAIN fs THEN "OSError"
  ELSE IF fs[path].json # None
    THEN (IF fs[path].whole THEN "" ELSE "JSONDecodeError")
  ELSE IF ~Utf8Decodable(fs[path].bytes) THEN "UnicodeDecodeError"
  ELSE IF fs[path].bytes \in JsonNumberTexts THEN ""
  ELSE "JSONDecodeError"

\* the exception content_path.read_bytes() and from_dict raise, "" when they
\* raise none; doc is the dict json.loads returned, None when it returned
\* something that is not a dict
DataReadError(fs, path, doc) ==
  IF path \notin DOMAIN fs THEN "OSError"
  ELSE IF doc = None THEN "AttributeError"
  ELSE FromDictError(doc[1])

\* except (json.JSONDecodeError, KeyError, OSError)
GetCaught == {"JSONDecodeError", "KeyError", "OSError"}

\* get leaves its try block with an exception: the ones it catches lead to
\* delete(key) and None, the others leave get
GetFault(r, kind) ==
  IF kind \in GetCaught THEN Call(r, "del_data", "get_none") ELSE Raise(r, kind)

\* a get that returns None on a digest that differs and deletes nothing
OnMismatch_KeepFiles(r) == Return([r EXCEPT !.ret = None, !.doc = None])

\* get on a digest that differs: delete(key), then None
OnMismatch(r) == Call(r, "del_data", "get_none")

\* the entry a get of the key returns when nothing else runs: None when a
\* file is missing, the metadata does not load or the digest differs
StoreView(key) ==
  IF ContentPath(key) \notin DOMAIN files \/ MetaPath(key) \notin DOMAIN files THEN None
  ELSE LET meta == files[MetaPath(key)]
           content == files[ContentPath(key)].bytes
       IN IF MetaReadError(files, MetaPath(key)) # "" THEN None
          ELSE IF DataReadError(files, ContentPath(key), meta.json) # "" THEN None
          ELSE IF HashMismatch(meta.json[1], FromDict(meta.json[1], content, now)) THEN None
          ELSE Some(FromDict(meta.json[1], content, now))

\* get(key) is called on the store
GetCall(c, key) ==
  /\ calls[c].op = "idle"
  /\ \A b \in 1..(c - 1) : calls[b].op # "idle"
  /\ calls' = [calls EXCEPT ![c] =
       [IdleCall EXCEPT !.op = "get", !.pc = "get_exists_data", !.key = key,
                        !.pre = StoreView(key)]]
  /\ UNCHANGED <<now, files, dirs, last_replace, mgr>>

\* get: content_path.exists()
GetExistsData(c) ==
  LET r == calls[c] IN
  /\ r.pc = "get_exists_data"
  /\ calls' = [calls EXCEPT ![c] =
       IF ContentPath(r.key) \in DOMAIN files THEN [r EXCEPT !.pc = "get_exists_meta"]
       ELSE Return([r EXCEPT !.ret = None])]
  /\ UNCHANGED <<now, files, dirs, last_replace, mgr>>

\* get: meta_path.exists()
GetExistsMeta(c) ==
  LET r == calls[c] IN
  /\ r.pc = "get_exists_meta"
  /\ calls' = [calls EXCEPT ![c] =
       IF MetaPath(r.key) \in DOMAIN files THEN [r EXCEPT !.pc = "get_read_meta"]
       ELSE Return([r EXCEPT !.ret = None])]
  /\ UNCHANGED <<now, files, dirs, last_replace, mgr>>

\* get: meta_path.read_text() and json.loads
GetReadMeta(c) ==
  LET r == calls[c]
      path == MetaPath(r.key)
      error == MetaReadError(files, path)
  IN
  /\ r.pc = "get_read_meta"
  /\ calls' = [calls EXCEPT ![c] =
       IF error = "" THEN [r EXCEPT !.pc = "get_read_data", !.doc = files[path].json]
       ELSE GetFault(r, error)]
  /\ UNCHANGED <<now, files, dirs, last_replace, mgr>>

\* get: content_path.read_bytes(), from_dict and the digest check
GetReadData(c) ==
  LET r == calls[c]
      path == ContentPath(r.key)
      error == DataReadError(files, path, r.doc)
      entry == FromDict(r.doc[1], files[path].bytes, now)
  IN
  /\ r.pc = "get_read_data"
  /\ calls' = [calls EXCEPT ![c] =
       IF error # "" THEN GetFault(r, error)
       ELSE IF HashMismatch(r.doc[1], entry) THEN OnMismatch(r)
       ELSE Return([r EXCEPT !.ret = Some(entry), !.doc = None])]
  /\ UNCHANGED <<now, files, dirs, last_replace, mgr>>

(***************************************************************************)
(* storage/base.py: FetchResult, FetchOptions; the storage provider.       *)
(***************************************************************************)
\* FetchResult(content=..., ...) with __post_init__
FetchResult(content, content_type, encoding, etag, last_modified, size, metadata) ==
  [content |-> content, content_type |-> content_type, encoding |-> encoding,
   etag |-> etag, last_modified |-> last_modified,
   size |-> IF size = 0 /\ content # <<>> THEN Len(content) ELSE size,
   metadata |-> metadata]

\* the validators a provider answers with: (etag, last_modified)
Validators == {<<None, None>>, <<Some("v1"), Some(0)>>}

\* a provider's answers that carry content
FullResults ==
  {FetchResult(content, "text/markdown", Some("utf-8"), v[1], v[2], Len(content),
               [provider |-> "local"])
     : content \in Contents, v \in Validators}

\* a provider's "not modified" answers: no content, the flag in the metadata
NotModifiedResults ==
  {FetchResult(<<>>, "text/markdown", Some("utf-8"), v[1], v[2], 0,
               [not_modified |-> TRUE])
     : v \in Validators}

\* what storage.fetch(path, options) may return when it does not raise: a
\* provider says "not modified" only to a request that carries a validator
ProviderResults(options) ==
  IF options.if_none_match # None \/ options.if_modified_since # None
    THEN FullResults \cup NotModifiedResults
    ELSE FullResults

\* the answers of the provider named storage: what it returns carries its
\* name under "provider"
ProviderAnswers(storage, options) ==
  {[result EXCEPT !.metadata = IF "provider" \in DOMAIN @
                                 THEN [@ EXCEPT !.provider = storage] ELSE @]
     : result \in ProviderResults(options)}

(***************************************************************************)
(* cache/manager.py: CacheManager.                                         *)
(***************************************************************************)
\* cleanup_interval: int = 3600
CleanupInterval == 3600

\* default_ttl: int = 3600
DefaultTtl == 3600

\* max_entries: int = 10000
MaxEntries == 10000

\* CacheManager.__init__
InitManager ==
  [closed |-> FALSE, last_cleanup |-> 0, cleanup_interval |-> CleanupInterval,
   cleanup_spawned |-> FALSE, cleanup_task |-> None, default_ttl |-> DefaultTtl,
   max_entries |-> MaxEntries]

\* the slot that holds the task _maybe_cleanup creates
TaskSlot == 2

\* an _ensure_not_closed that never raises
EnsureNotClosed_Never(m) == FALSE

\* _ensure_not_closed raises CacheError MANAGER_CLOSED
EnsureNotClosed(m) == m.closed

\* urlparse(path).path of an http(s) URL
UrlPath(path) ==
  LET scheme_end == CHOOSE i \in 1..Len(path) : SubSeq(path, i, i + 2) = <<":","/","/">>
      rest == S_Drop(path, scheme_end + 2)
      stops == {i \in 1..Len(rest) : rest[i] \in {"/", "?", "#"}}
      after_host == IF stops = {} THEN <<>>
                    ELSE S_Drop(rest, (CHOOSE i \in stops : \A j \in stops : i <= j) - 1)
      cuts == {i \in 1..Len(after_host) : after_host[i] \in {"?", "#"}}
      upto == IF cuts = {} THEN after_host
              ELSE S_Take(after_host, (CHOOSE i \in cuts : \A j \in cuts : i <= j) - 1)
      last_slash == {i \in 1..Len(upto) : upto[i] = "/"}
      from == IF last_slash = {} THEN 0 ELSE CHOOSE i \in last_slash : \A j \in last_slash : j <= i
      semis == {i \in (from + 1)..Len(upto) : upto[i] = ";"}
  IN IF semis = {} THEN upto
     ELSE S_Take(upto, (CHOOSE i \in semis : \A j \in semis : i <= j) - 1)

\* a lookup that hands the request path to the registry as it came
GetTtl_Unstripped(types, path) == RegistryGetTtl(types, path)

\* CacheManager._get_ttl(path)
GetTtl(types, path) ==
  LET codex == <<"c","o","d","e","x",":","/","/">>
      parts == S_SplitN(S_Drop(path, 8), "/", 2)
      file_path ==
        IF S_StartsWith(path, codex)
          THEN IF Len(parts) >= 3 THEN parts[3] ELSE path
        ELSE IF S_StartsWith(path, <<"h","t","t","p",":","/","/">>)
                \/ S_StartsWith(path, <<"h","t","t","p","s",":","/","/">>)
          THEN UrlPath(path)
        ELSE path
  IN RegistryGetTtl(types, file_path)

\* a conversion that never tags the result stale
EntryToResult_NeverStale(entry, from_cache, stale, t) ==
  FetchResult(entry.content, entry.content_type, entry.encoding, entry.etag,
              entry.last_modified, entry.size,
              Update(entry.metadata,
                     [from_cache |-> from_cache, cache_key |-> entry.key,
                      cache_age |-> Age(entry, t), cache_hits |-> entry.hit_count]))

\* CacheManager._entry_to_result(entry, from_cache=..., stale=...) at clock time t
EntryToResult(entry, from_cache, stale, t) ==
  LET tagged == Update(entry.metadata,
                       [from_cache |-> from_cache, cache_key |-> entry.key,
                        cache_age |-> Age(entry, t), cache_hits |-> entry.hit_count])
      metadata == IF stale THEN Update(tagged, [stale |-> TRUE]) ELSE tagged
  IN FetchResult(entry.content, entry.content_type, entry.encoding, entry.etag,
                 entry.last_modified, entry.size, metadata)

\* the conditional request options _conditional_fetch builds
CondOptions(cached_entry) ==
  [if_none_match |-> IF TruthyStr(cached_entry.etag) THEN cached_entry.etag ELSE None,
   if_modified_since |-> IF TruthyTime(cached_entry.last_modified)
                           THEN cached_entry.last_modified ELSE None]

\* FetchOptions() as the caller's plain fetch sends them (options=None)
PlainOptions == [if_none_match |-> None, if_modified_since |-> None]

\* _conditional_fetch: the answer says the content is unchanged
NotModified(result, cached_entry) ==
  \/ Get(result.metadata, "not_modified", FALSE)
  \/ (TruthyStr(result.etag) /\ result.etag = cached_entry.etag)

\* a fetch that consults the cache even when forced
ChecksCacheFirst_Always(force_refresh) == TRUE

\* fetch: the cache is consulted before the provider
ChecksCacheFirst(force_refresh) == ~force_refresh

\* a fallback that serves an entry only once it has expired
FallbackUsable_ExpiredOnly(entry, t) == entry # None /\ IsExpired(entry[1], t)

\* fetch: an entry found after the provider failed is served as stale
FallbackUsable(entry, t) == entry # None

\* an entry built without the content of the provider's answer
EntryFromResult_NoContent(cache_key, result, ttl, t) ==
  CacheEntry(cache_key, <<>>, result.content_type, result.encoding,
             result.etag, result.last_modified, t, None, ttl, 0, result.metadata, 0,
             Some(Get(result.metadata, "provider", "unknown")))

\* fetch: the new CacheEntry built from a provider's answer at clock time t
EntryFromResult(cache_key, result, ttl, t) ==
  CacheEntry(cache_key, result.content, result.content_type, result.encoding,
             result.etag, result.last_modified, t, None, ttl, 0, result.metadata, 0,
             Some(Get(result.metadata, "provider", "unknown")))

\* one request to the provider, as the call's log keeps it
Request(conditional, options, response, t) ==
  [conditional |-> conditional, if_none_match |-> options.if_none_match,
   if_modified_since |-> options.if_modified_since, response |-> response, at |-> t]

\* the call ends and hands back a FetchResult
Finish(r, result) ==
  [r EXCEPT !.pc = "done", !.stack = <<>>, !.result = Some(result),
            !.entry = None, !.ret = None, !.fetched = None]

\* the call ends with an exception
Fail(r, code) ==
  [Raise(r, code) EXCEPT !.entry = None, !.ret = None, !.fetched = None]

\* a key that keeps the entries of each provider apart
FetchCacheKey_Namespaced(path, storage) ==
  GenerateCacheKey(path, Some(storage))

\* fetch: cache_key = generate_cache_key(path), whatever storage is
FetchCacheKey(path, storage) == GenerateCacheKey(path, None)

\* the name of LocalStorage
LocalName == <<"l","o","c","a","l">>

\* the name of HttpStorage
HttpName == <<"h","t","t","p">>

\* the string a provider's name is in the metadata of its answers
NameString(name) == IF name = LocalName THEN "local" ELSE "http"

\* fetch(path, storage, ttl=..., force_refresh=...) up to its first await;
\* path gives cache_key
FetchThrough(c, path, storage, force_refresh, ttl) ==
  LET cache_key == FetchCacheKey(path, storage)
      r == [IdleCall EXCEPT !.op = "fetch", !.path = path, !.key = cache_key,
                            !.storage = NameString(storage),
                            !.force_refresh = force_refresh, !.ttl = ttl,
                            !.pre = StoreView(cache_key), !.prev = calls[c].prev]
  IN
  /\ calls[c].op = "idle"
  /\ calls' = [calls EXCEPT ![c] =
       IF EnsureNotClosed(mgr) THEN Fail(r, "MANAGER_CLOSED")
       ELSE IF ChecksCacheFirst(force_refresh) THEN Call(r, "get_exists_data", "f_check")
       ELSE [r EXCEPT !.pc = "f_fetch"]]
  /\ UNCHANGED <<now, files, dirs, last_replace, mgr>>

\* fetch through a LocalStorage
FetchBegin(c, path, force_refresh, ttl) == FetchThrough(c, path, LocalName, force_refresh, ttl)

\* fetch is called by a caller that makes one call at a time
FetchCall(c, path, force_refresh, ttl) ==
  LET cache_key == GenerateCacheKey(path, None) IN
  /\ \A b \in CallIds : calls[b].op = "idle"
  /\ c = 1
  /\ StoreView(cache_key) # None => StoreView(cache_key)[1].hit_count < MaxHits
  /\ FetchBegin(c, path, force_refresh, ttl)

\* fetch, after store.get: a fresh entry is a hit, a stale one is revalidated,
\* none is a miss
FetchCheck(c) ==
  LET r == calls[c]
      entry == r.ret
  IN
  /\ r.pc = "f_check"
  /\ calls' = [calls EXCEPT ![c] =
       IF entry # None /\ IsFresh(entry[1], now)
         THEN Call([r EXCEPT !.entry = Some(RecordHit(entry[1])), !.ret = None],
                   "put_mkdir", "f_hit")
       ELSE IF entry # None
         THEN [r EXCEPT !.entry = entry, !.ret = None, !.pc = "f_cond"]
       ELSE [r EXCEPT !.ret = None, !.pc = "f_fetch"]]
  /\ UNCHANGED <<now, files, dirs, last_replace, mgr>>

\* fetch, after the put of the hit count: the entry is returned
FetchHit(c) ==
  LET r == calls[c] IN
  /\ r.pc = "f_hit"
  /\ calls' = [calls EXCEPT ![c] = Finish(r, EntryToResult(r.entry[1], TRUE, FALSE, now))]
  /\ UNCHANGED <<now, files, dirs, last_replace, mgr>>

\* a failed revalidation that drops the entry it serves
FetchConditionalError_Evicts(c) ==
  LET r == calls[c]
      options == CondOptions(r.entry[1])
      logged == [r EXCEPT !.requests = Append(@, Request(TRUE, options, None, now))]
      kept == DOMAIN files \ {ContentPath(r.key), MetaPath(r.key)}
  IN
  /\ r.pc = "f_cond"
  /\ files' = [p \in kept |-> files[p]]
  /\ calls' = [calls EXCEPT ![c] = Finish(logged, EntryToResult(r.entry[1], TRUE, TRUE, now))]
  /\ UNCHANGED <<now, dirs, last_replace, mgr>>

\* _conditional_fetch: the provider raises StorageError, and fetch returns the
\* stale entry
FetchConditionalError(c) ==
  LET r == calls[c]
      options == CondOptions(r.entry[1])
      logged == [r EXCEPT !.requests = Append(@, Request(TRUE, options, None, now))]
  IN
  /\ r.pc = "f_cond"
  /\ calls' = [calls EXCEPT ![c] = Finish(logged, EntryToResult(r.entry[1], TRUE, TRUE, now))]
  /\ UNCHANGED <<now, files, dirs, last_replace, mgr>>

\* _conditional_fetch: the provider answers; "not modified" refreshes and
\* stores the entry, anything else goes on to the plain fetch
FetchConditional(c) ==
  LET r == calls[c]
      cached_entry == r.entry[1]
      options == CondOptions(cached_entry)
  IN
  /\ r.pc = "f_cond"
  /\ \E result \in ProviderAnswers(r.storage, options) :
       LET logged == [r EXCEPT !.requests = Append(@, Request(TRUE, options, Some(result), now))]
       IN calls' = [calls EXCEPT ![c] =
            IF NotModified(result, cached_entry)
              THEN Call([logged EXCEPT !.entry =
                           Some(Refresh(cached_entry, cached_entry.content, None, now))],
                        "put_mkdir", "f_revalidated")
              ELSE [logged EXCEPT !.pc = "f_fetch"]]
  /\ UNCHANGED <<now, files, dirs, last_replace, mgr>>

\* fetch, after the put of the refreshed entry: the entry is returned
FetchRevalidated(c) ==
  LET r == calls[c] IN
  /\ r.pc = "f_revalidated"
  /\ calls' = [calls EXCEPT ![c] = Finish(r, EntryToResult(r.entry[1], TRUE, FALSE, now))]
  /\ UNCHANGED <<now, files, dirs, last_replace, mgr>>

\* fetch: storage.fetch(path, options) raises StorageError; the store is
\* asked for any entry
FetchPlainError(c) ==
  LET r == calls[c]
      logged == [r EXCEPT !.requests = Append(@, Request(FALSE, PlainOptions, None, now)),
                          !.entry = None]
  IN
  /\ r.pc = "f_fetch"
  /\ calls' = [calls EXCEPT ![c] = Call(logged, "get_exists_data", "f_fallback")]
  /\ UNCHANGED <<now, files, dirs, last_replace, mgr>>

\* fetch, after the get that follows a failed plain fetch: the entry is
\* returned as stale, or the StorageError is re-raised
FetchFallback(c) ==
  LET r == calls[c]
      entry == r.ret
  IN
  /\ r.pc = "f_fallback"
  /\ calls' = [calls EXCEPT ![c] =
       IF FallbackUsable(entry, now)
         THEN Finish(r, EntryToResult(entry[1], TRUE, TRUE, now))
         ELSE Fail(r, "STORAGE_ERROR")]
  /\ UNCHANGED <<now, files, dirs, last_replace, mgr>>

\* fetch: storage.fetch(path, options) answers; the TTL is the argument or
\* the registry's, and the new entry is stored
FetchPlain(c) ==
  LET r == calls[c] IN
  /\ r.pc = "f_fetch"
  /\ \E result \in ProviderAnswers(r.storage, PlainOptions) :
       LET ttl == IF r.ttl # None THEN r.ttl[1] ELSE GetTtl(BUILT_IN_TYPES, r.path)
           logged == [r EXCEPT !.requests = Append(@, Request(FALSE, PlainOptions, Some(result), now))]
       IN calls' = [calls EXCEPT ![c] =
            Call([logged EXCEPT !.fetched = Some(result),
                                !.entry = Some(EntryFromResult(r.key, result, ttl, now))],
                 "put_mkdir", "f_stored")]
  /\ UNCHANGED <<now, files, dirs, last_replace, mgr>>

\* asyncio.create_task(self.cleanup()): the task exists and has not run yet;
\* the handle create_task returns is kept nowhere
CleanupTask == [IdleCall EXCEPT !.op = "cleanup", !.pc = "task_created"]

\* fetch, after the put of the new entry: _maybe_cleanup, and the provider's
\* answer is returned as it came (one cleanup task at a time: none is created
\* while TaskSlot is taken)
FetchStored(c) ==
  LET r == calls[c]
      elapsed == now - mgr.last_cleanup
      spawn == elapsed >= mgr.cleanup_interval
  IN
  /\ r.pc = "f_stored"
  /\ mgr' = IF spawn THEN [mgr EXCEPT !.cleanup_spawned = TRUE] ELSE mgr
  /\ calls' = [b \in CallIds |->
       IF b = c THEN Finish(r, r.fetched[1])
       ELSE IF b = TaskSlot /\ spawn /\ calls[b].op = "idle" THEN CleanupTask
       ELSE calls[b]]
  /\ UNCHANGED <<now, files, dirs, last_replace>>

\* what the caller keeps of a finished call until its next call or until time
\* passes: the path and the result of a call that began with no entry stored
Outcome(r) ==
  IF r.op = "fetch" /\ r.pre = None /\ r.result # None
    THEN Some([path |-> r.path, result |-> r.result[1]])
    ELSE None

\* the caller takes the outcome of a finished call
TakeResult(c) ==
  /\ calls[c].pc = "done"
  /\ calls' = [calls EXCEPT ![c] = [IdleCall EXCEPT !.prev = Outcome(calls[c])]]
  /\ UNCHANGED <<now, files, dirs, last_replace, mgr>>

\* the clock advances
Tick ==
  /\ now < MaxTime
  /\ now' = now + 1
  /\ calls' = [c \in CallIds |->
                 IF calls[c].op = "idle" THEN [calls[c] EXCEPT !.prev = None] ELSE calls[c]]
  /\ UNCHANGED <<files, dirs, last_replace, mgr>>

(***************************************************************************)
(* The manager: fetch calls one after the other on one key, reached by two *)
(* paths, while the clock advances.                                        *)
(***************************************************************************)
FetchPaths == { <<"d","/","a",".","m","d">>,
                <<"f","i","l","e",":","/","/","d","/","a",".","m","d">> }

\* the ttl argument: absent, or one tick
TtlArgs == {None, Some(1)}

Init ==
  /\ now = 0
  /\ files = <<>>
  /\ dirs = {}
  /\ calls = [c \in CallIds |-> IdleCall]
  /\ last_replace = 0
  /\ mgr = InitManager

Next ==
  \/ Tick
  \/ \E c \in CallIds :
       \/ \E path \in FetchPaths, force_refresh \in BOOLEAN, ttl \in TtlArgs :
            FetchCall(c, path, force_refresh, ttl)
       \/ FetchCheck(c)
       \/ FetchHit(c)
       \/ FetchConditionalError(c)
       \/ FetchConditional(c)
       \/ FetchRevalidated(c)
       \/ FetchPlainError(c)
       \/ FetchFallback(c)
       \/ FetchPlain(c)
       \/ FetchStored(c)
       \/ TakeResult(c)
       \/ PutMkdir(c)
       \/ AtomicWriteTemp(c)
       \/ AtomicWriteReplace(c)
       \/ GetExistsData(c)
       \/ GetExistsMeta(c)
       \/ GetReadMeta(c)
       \/ GetReadData(c)

Spec == Init /\ [][Next]_vars

(***************************************************************************)
(* core/patterns.py: match_pattern.                                        *)
(***************************************************************************)
\* a matcher that every path satisfies
MatchPattern_Always(path, pattern) == TRUE

\* match_pattern(path, pattern)
MatchPattern(path, pattern) ==
  LET p == S_RStrip(S_LStrip(S_Replace(path, "\\", "/"), {"/"}), {"/"})
      pat == S_RStrip(S_LStrip(S_Replace(pattern, "\\", "/"), {"/"}), {"/"})
  IN IF S_Contains(pat, <<"*","*">>)
       THEN MatchParts(IF p = <<>> THEN <<>> ELSE S_Split(p, "/"), S_Split(pat, "/"))
       ELSE FnMatch(p, pat)

(***************************************************************************)
(* FileCacheStore.keys: the walk of cache_dir.rglob("*.meta"), and the     *)
(* loops of clear, entries, clear_expired, stats and invalidate_pattern    *)
(* that consume it.                                                        *)
(***************************************************************************)
\* the file name ends in META_EXT
IsMeta(q) ==
  Len(q) >= Len(META_EXT) /\ SubSeq(q, Len(q) - Len(META_EXT) + 1, Len(q)) = META_EXT

RECURSIVE SeqOf(_)
\* the members of a set in the order scandir lists them (one order is taken)
SeqOf(S) ==
  IF S = {} THEN <<>>
  ELSE LET x == CHOOSE y \in S : TRUE IN <<x>> \o SeqOf(S \ {x})

\* a step the walk has still to take: match the names in a directory ("dir"),
\* list its subdirectories ("sub"), read a metadata file ("meta")
Item(kind, path) == [kind |-> kind, path |-> path]

\* cache_dir is <<>> and exists
DirExists(dir) == dir = <<>> \/ dir \in dirs

\* what a scandir of the directory adds to the walk
Listing(item) ==
  IF item.kind = "dir"
    THEN LET metas == SeqOf({q \in DOMAIN files : ParentDir(q) = item.path /\ IsMeta(q)})
         IN [i \in 1..Len(metas) |-> Item("meta", metas[i])] \o <<Item("sub", item.path)>>
    ELSE LET subs == SeqOf({d \in dirs : ParentDir(d) = item.path})
         IN [i \in 1..Len(subs) |-> Item("dir", subs[i])]

\* the loop over keys() begins
WalkStart(r, loop) ==
  [r EXCEPT !.loop = loop, !.pc = "walk", !.todo = <<Item("dir", <<>>)>>]

\* the body of the loop that consumes keys(), up to its first await
Yield(r, key) ==
  CASE r.loop = "clear" -> Call([r EXCEPT !.key = key], "del_data", "clear_next")
    [] r.loop \in {"clear_expired", "stats"} ->
         Call([r EXCEPT !.key = key], "get_exists_data", "entries_got")
    [] r.loop = "pattern" ->
         IF MatchPattern(key, r.path) THEN [r EXCEPT !.found = Append(@, key)] ELSE r
    [] OTHER -> [r EXCEPT !.found = Append(@, key)]

\* rglob: os.scandir of the next directory; a directory removed since it was
\* listed makes scandir raise FileNotFoundError, which pathlib lets through
\* or swallows depending on its version
KeysScan(c) ==
  LET r == calls[c]
      item == Head(r.todo)
  IN
  /\ r.pc = "walk"
  /\ r.todo # <<>>
  /\ item.kind \in {"dir", "sub"}
  /\ \E raises \in BOOLEAN :
       calls' = [calls EXCEPT ![c] =
         IF DirExists(item.path) THEN [r EXCEPT !.todo = Listing(item) \o Tail(@)]
         ELSE IF raises THEN Raise(r, "FileNotFoundError")
         ELSE [r EXCEPT !.todo = Tail(@)]]
  /\ UNCHANGED <<now, files, dirs, last_replace, mgr>>

\* keys: meta_path.read_text, json.loads, yield metadata["key"]; the loop
\* body runs up to its first await
KeysReadMeta(c) ==
  LET r == calls[c]
      path == Head(r.todo).path
      r1 == [r EXCEPT !.todo = Tail(@)]
      read == MetaReadError(files, path)
      error == IF read # "" THEN read
               ELSE IF files[path].json = None THEN "TypeError"
               ELSE IF "key" \notin DOMAIN files[path].json[1] THEN "KeyError"
               ELSE ""
  IN
  /\ r.pc = "walk"
  /\ r.todo # <<>>
  /\ Head(r.todo).kind = "meta"
  /\ calls' = [calls EXCEPT ![c] =
       IF error = "" THEN Yield(r1, files[path].json[1].key)
       ELSE IF error \in GetCaught THEN r1
       ELSE Raise(r, error)]
  /\ UNCHANGED <<now, files, dirs, last_replace, mgr>>

\* entries(include_expired=True), after get: clear_expired keeps the keys of
\* expired entries, stats adds the entry to its totals
EntriesGot(c) ==
  LET r == calls[c]
      r1 == [r EXCEPT !.pc = "walk", !.ret = None]
      e == r.ret[1]
  IN
  /\ r.pc = "entries_got"
  /\ calls' = [calls EXCEPT ![c] =
       IF r.ret = None THEN r1
       ELSE IF r.loop = "stats"
         THEN [r1 EXCEPT !.found = Append(@, [size |-> e.size, hit_count |-> e.hit_count,
                                              expired |-> IsExpired(e, now)])]
       ELSE IF IsExpired(e, now) THEN [r1 EXCEPT !.found = Append(@, e.key)]
       ELSE r1]
  /\ UNCHANGED <<now, files, dirs, last_replace, mgr>>

RECURSIVE SumOf(_, _)
\* the sum of field f over a sequence of records
SumOf(s, f) == IF s = <<>> THEN 0 ELSE Head(s)[f] + SumOf(Tail(s), f)

\* the dict FileCacheStore.stats returns from what it has seen
StoreStats(seen) ==
  LET expired_count == Len(SelectSeq(seen, LAMBDA x : x.expired))
  IN [total_entries |-> Len(seen), total_size |-> SumOf(seen, "size"),
      expired_count |-> expired_count, fresh_count |-> Len(seen) - expired_count,
      total_hits |-> SumOf(seen, "hit_count")]

\* keys() is exhausted: clear and stats return, clear_expired and
\* invalidate_pattern go on to delete the keys they kept
WalkEnd(c) ==
  LET r == calls[c] IN
  /\ r.pc = "walk"
  /\ r.todo = <<>>
  /\ calls' = [calls EXCEPT ![c] =
       IF r.loop \in {"clear_expired", "pattern"} THEN [r EXCEPT !.pc = "sweep"]
       ELSE IF r.loop = "stats"
         THEN Return([r EXCEPT !.ret = Some(StoreStats(r.found)), !.found = <<>>])
       ELSE Return(r)]
  /\ UNCHANGED <<now, files, dirs, last_replace, mgr>>

\* for key in keys_to_delete: await self.delete(key)
Sweep(c) ==
  LET r == calls[c] IN
  /\ r.pc = "sweep"
  /\ calls' = [calls EXCEPT ![c] =
       IF r.found = <<>> THEN Return(r)
       ELSE Call([r EXCEPT !.key = Head(r.found), !.found = Tail(@)], "del_data", "sweep_next")]
  /\ UNCHANGED <<now, files, dirs, last_replace, mgr>>

\* if await self.delete(key): count += 1
CountDeleted(c) ==
  LET r == calls[c] IN
  /\ r.pc \in {"clear_next", "sweep_next"}
  /\ calls' = [calls EXCEPT ![c] =
       [r EXCEPT !.pc = IF r.pc = "clear_next" THEN "walk" ELSE "sweep",
                 !.count = IF r.deleted THEN @ + 1 ELSE @,
                 !.deleted = FALSE]]
  /\ UNCHANGED <<now, files, dirs, last_replace, mgr>>

\* the entries the store holds, by key
Snapshot ==
  LET metas == {q \in DOMAIN files : IsMeta(q) /\ files[q].json # None}
      held == {files[q].json[1].key : q \in {m \in metas : "key" \in DOMAIN files[m].json[1]}}
      valid == {k \in held : StoreView(k) # None}
  IN [k \in valid |-> StoreView(k)[1]]

\* the artifacts of the key that are in place
Artifacts(key) == {q \in {ContentPath(key), MetaPath(key)} : q \in DOMAIN files}

\* exists, get, delete, clear, clear_expired, stats or keys is called on the
\* store; pre keeps the entries held when the call began
StoreCall(c, op, key) ==
  LET r == [IdleCall EXCEPT !.op = op, !.key = key, !.pre = Some(Snapshot),
                            !.had = Artifacts(key)] IN
  /\ calls[c].op = "idle"
  /\ calls' = [calls EXCEPT ![c] =
       IF op = "exists"
         THEN Return([r EXCEPT !.answer = ContentPath(key) \in DOMAIN files
                                          /\ MetaPath(key) \in DOMAIN files])
       ELSE IF op = "get" THEN [r EXCEPT !.pc = "get_exists_data"]
       ELSE IF op = "delete" THEN [r EXCEPT !.pc = "del_data"]
       ELSE WalkStart(r, op)]
  /\ UNCHANGED <<now, files, dirs, last_replace, mgr>>

(***************************************************************************)
(* CacheManager: get_cached, is_cached, is_fresh, invalidate,              *)
(* invalidate_pattern, clear, cleanup, stats, close.                       *)
(***************************************************************************)
\* the call of a manager method with its argument
ManagerCall(op, path) ==
  [IdleCall EXCEPT !.op = op, !.path = path, !.pre = Some(Snapshot)]

\* get_cached(path), is_cached(path) or is_fresh(path) is called
GetCachedCall(c, op, path) ==
  LET r == [ManagerCall(op, path) EXCEPT !.key = GenerateCacheKey(path, None)] IN
  /\ calls[c].op = "idle"
  /\ calls' = [calls EXCEPT ![c] =
       IF EnsureNotClosed(mgr) THEN Raise(r, "MANAGER_CLOSED")
       ELSE IF op = "get_cached" THEN [r EXCEPT !.pc = "get_exists_data"]
       ELSE Call(r, "get_exists_data", "read_done")]
  /\ UNCHANGED <<now, files, dirs, last_replace, mgr>>

\* is_cached, is_fresh: after get_cached
ReadDone(c) ==
  LET r == calls[c] IN
  /\ r.pc = "read_done"
  /\ calls' = [calls EXCEPT ![c] =
       Return([r EXCEPT !.answer = IF r.op = "is_cached" THEN r.ret # None
                                   ELSE r.ret # None /\ IsFresh(r.ret[1], now)])]
  /\ UNCHANGED <<now, files, dirs, last_replace, mgr>>

\* invalidate(path) is called
InvalidateCall(c, path) ==
  LET r == [ManagerCall("invalidate", path) EXCEPT
              !.key = GenerateCacheKey(path, None),
              !.had = Artifacts(GenerateCacheKey(path, None))] IN
  /\ calls[c].op = "idle"
  /\ calls' = [calls EXCEPT ![c] =
       IF EnsureNotClosed(mgr) THEN Raise(r, "MANAGER_CLOSED")
       ELSE [r EXCEPT !.pc = "del_data"]]
  /\ UNCHANGED <<now, files, dirs, last_replace, mgr>>

\* invalidate_pattern(pattern) is called
InvalidatePatternCall(c, pattern) ==
  LET r == ManagerCall("invalidate_pattern", pattern) IN
  /\ calls[c].op = "idle"
  /\ calls' = [calls EXCEPT ![c] =
       IF EnsureNotClosed(mgr) THEN Raise(r, "MANAGER_CLOSED")
       ELSE WalkStart(r, "pattern")]
  /\ UNCHANGED <<now, files, dirs, last_replace, mgr>>

\* clear() is called
ClearCall(c) ==
  LET r == ManagerCall("clear", <<>>) IN
  /\ calls[c].op = "idle"
  /\ calls' = [calls EXCEPT ![c] =
       IF EnsureNotClosed(mgr) THEN Raise(r, "MANAGER_CLOSED")
       ELSE WalkStart(r, "clear")]
  /\ UNCHANGED <<now, files, dirs, last_replace, mgr>>

\* cleanup(), up to its first await
CleanupBegin(r) ==
  IF EnsureNotClosed(mgr) THEN Raise(r, "MANAGER_CLOSED")
  ELSE Call(WalkStart(r, "clear_expired"), "walk", "cleanup_done")

\* cleanup() is called
CleanupCall(c) ==
  /\ calls[c].op = "idle"
  /\ calls' = [calls EXCEPT ![c] = CleanupBegin(ManagerCall("cleanup", <<>>))]
  /\ UNCHANGED <<now, files, dirs, last_replace, mgr>>

\* the event loop runs the task _maybe_cleanup created
TaskRun(c) ==
  /\ calls[c].pc = "task_created"
  /\ calls' = [calls EXCEPT ![c] = CleanupBegin([calls[c] EXCEPT !.pre = Some(Snapshot)])]
  /\ UNCHANGED <<now, files, dirs, last_replace, mgr>>

\* cleanup, after clear_expired: self._last_cleanup = now
CleanupDone(c) ==
  LET r == calls[c] IN
  /\ r.pc = "cleanup_done"
  /\ mgr' = [mgr EXCEPT !.last_cleanup = now]
  /\ calls' = [calls EXCEPT ![c] = Return(r)]
  /\ UNCHANGED <<now, files, dirs, last_replace>>

\* stats() is called
StatsCall(c) ==
  LET r == ManagerCall("stats", <<>>) IN
  /\ calls[c].op = "idle"
  /\ calls' = [calls EXCEPT ![c] =
       IF EnsureNotClosed(mgr) THEN Raise(r, "MANAGER_CLOSED")
       ELSE Call(WalkStart(r, "stats"), "walk", "stats_done")]
  /\ UNCHANGED <<now, files, dirs, last_replace, mgr>>

\* stats, after store.stats: the manager's own figures are added
StatsDone(c) ==
  LET r == calls[c] IN
  /\ r.pc = "stats_done"
  /\ calls' = [calls EXCEPT ![c] =
       Return([r EXCEPT !.ret = Some(Update(r.ret[1],
         [default_ttl |-> mgr.default_ttl, max_entries |-> mgr.max_entries,
          cleanup_interval |-> mgr.cleanup_interval,
          last_cleanup |-> IsoFormat(mgr.last_cleanup)]))])]
  /\ UNCHANGED <<now, files, dirs, last_replace, mgr>>

\* a task that is cancelled ends with CancelledError at the await it is at
Cancelled(r) == Raise(r, "CancelledError")

\* close(): the task whose handle is kept, if any, is cancelled and awaited;
\* then the manager is closed
Close ==
  /\ ~mgr.closed
  /\ calls' = IF mgr.cleanup_task # None
                THEN [calls EXCEPT ![mgr.cleanup_task[1]] = Cancelled(@)]
                ELSE calls
  /\ mgr' = [mgr EXCEPT !.closed = TRUE]
  /\ UNCHANGED <<now, files, dirs, last_replace>>

(***************************************************************************)
(* The store alone: calls of put and get on one key, each in its own slot, *)
(* interleaved at their file operations; a writer may die at any point.    *)
(***************************************************************************)
\* the path and key the store calls use
StorePath == <<"d","/","a",".","m","d">>

StoreKey == GenerateCacheKey(StorePath, None)

\* the entries handed to put
PutEntries ==
  {CacheEntry(StoreKey, content, "text/markdown", Some("utf-8"), etag, None, 0,
              None, TTL_HOUR, 0, <<>>, 0, Some("local"))
     : content \in Contents, etag \in {None, Some("v1")}}

InitStore ==
  /\ now = 0
  /\ files = <<>>
  /\ dirs = {}
  /\ calls = [c \in CallIds |-> IdleCall]
  /\ last_replace = 0
  /\ mgr = InitManager

NextStore ==
  \E c \in CallIds :
    \/ \E e \in PutEntries : PutCall(c, e)
    \/ GetCall(c, StoreKey)
    \/ PutMkdir(c)
    \/ AtomicWriteTemp(c)
    \/ AtomicWriteReplace(c)
    \/ GetExistsData(c)
    \/ GetExistsMeta(c)
    \/ GetReadMeta(c)
    \/ GetReadData(c)
    \/ DeleteData(c)
    \/ DeleteMeta(c)
    \/ DeleteRmdir(c)

SpecStore == InitStore /\ [][NextStore]_vars

(***************************************************************************)
(* The writers alone, any of which may die at any point of its put.        *)
(***************************************************************************)
NextCrash ==
  \E c \in 1..NumWriters :
    \/ \E e \in PutEntries : PutCall(c, e)
    \/ PutMkdir(c)
    \/ AtomicWriteTemp(c)
    \/ AtomicWriteReplace(c)
    \/ CrashInWrite(c)
    \/ CrashInPut(c)

SpecCrash == InitStore /\ [][NextCrash]_vars

(***************************************************************************)
(* The store under one caller at a time, its files damaged from outside    *)
(* between two calls.  What was done to the files is kept in a call slot.  *)
(***************************************************************************)
\* no call is in progress
Quiet == \A b \in CallIds : calls[b].pc \in {"idle", "done"}

\* the next free slot
NextSlot(c) == calls[c].op = "idle" /\ \A b \in 1..(c - 1) : calls[b].op # "idle"

\* the ways a metadata sidecar is malformed
MalformedKinds ==
  {"not_json", "not_object", "no_key", "bad_fetched_at", "bad_expires_at",
   "bad_last_modified", "undecodable"}

\* the dict without its entry for k
DropKey(d, k) == [j \in (DOMAIN d) \ {k} |-> d[j]]

\* the sidecar file f, holding a whole dict, made malformed
Malformed(kind, f) ==
  CASE kind = "not_json" -> [f EXCEPT !.whole = FALSE]
    [] kind = "not_object" -> [bytes |-> <<55>>, json |-> None, whole |-> TRUE]
    [] kind = "no_key" -> [f EXCEPT !.json = Some(DropKey(f.json[1], "key"))]
    [] kind = "bad_fetched_at" -> [f EXCEPT !.json = Some([f.json[1] EXCEPT !.fetched_at = Some(BadIsoText)])]
    [] kind = "bad_expires_at" -> [f EXCEPT !.json = Some([f.json[1] EXCEPT !.expires_at = Some(BadIsoText)])]
    [] kind = "bad_last_modified" -> [f EXCEPT !.json = Some([f.json[1] EXCEPT !.last_modified = Some(BadIsoText)])]
    [] kind = "undecodable" -> [bytes |-> <<255>>, json |-> None, whole |-> TRUE]

\* the sidecar of a stored entry is overwritten from outside
CorruptMeta(c, kind) ==
  /\ Quiet
  /\ NextSlot(c)
  /\ StoreView(StoreKey) # None
  /\ files' = [files EXCEPT ![MetaPath(StoreKey)] = Malformed(kind, @)]
  /\ calls' = [calls EXCEPT ![c] =
       [IdleCall EXCEPT !.op = "corrupt", !.pc = "done", !.key = StoreKey, !.fault = kind]]
  /\ UNCHANGED <<now, dirs, last_replace, mgr>>

\* the content file of a stored entry is overwritten from outside with other
\* bytes; the sidecar keeps the digest of the old ones
TamperContent(c, content) ==
  /\ Quiet
  /\ NextSlot(c)
  /\ StoreView(StoreKey) # None
  /\ content # files[ContentPath(StoreKey)].bytes
  /\ files' = [files EXCEPT ![ContentPath(StoreKey)] = Written(BytesPayload(content), Len(content))]
  /\ calls' = [calls EXCEPT ![c] =
       [IdleCall EXCEPT !.op = "tamper", !.pc = "done", !.key = StoreKey]]
  /\ UNCHANGED <<now, dirs, last_replace, mgr>>

\* the entries handed to put: one that expires after a tick, one that lasts
DamageEntries ==
  {CacheEntry(StoreKey, content, "text/markdown", Some("utf-8"), None, None, 0,
              None, ttl, 0, <<>>, 0, Some("local"))
     : content \in Contents, ttl \in {1, TTL_HOUR}}

NextDamage ==
  \/ Tick
  \/ \E c \in CallIds :
       \/ c = 1 /\ calls[c].op = "idle" /\ \E e \in DamageEntries : PutCall(c, e)
       \/ Quiet /\ GetCall(c, StoreKey)
       \/ \E kind \in MalformedKinds : CorruptMeta(c, kind)
       \/ \E content \in Contents : TamperContent(c, content)
       \/ PutMkdir(c)
       \/ AtomicWriteTemp(c)
       \/ AtomicWriteReplace(c)
       \/ GetExistsData(c)
       \/ GetExistsMeta(c)
       \/ GetReadMeta(c)
       \/ GetReadData(c)
       \/ DeleteData(c)
       \/ DeleteMeta(c)
       \/ DeleteRmdir(c)

SpecDamage == InitStore /\ [][NextDamage]_vars

(***************************************************************************)
(* One put followed by gets of its key, over entries of every shape.       *)
(***************************************************************************)
\* the entries handed to put, as the constructor builds them
RoundTripEntries ==
  {CacheEntry(StoreKey, content, "text/markdown", encoding, etag, last_modified, 0,
              expires_at, ttl, size, <<>>, hit_count, source)
     : content \in Contents, encoding \in {None, Some("utf-8")},
       etag \in {None, Some(""), Some("v1")}, last_modified \in {None, Some(0)},
       expires_at \in {None, Some(5)}, ttl \in {0, 1, TTL_HOUR}, size \in {0, 7},
       hit_count \in {0, 1}, source \in {None, Some("local")}}

NextRoundTrip ==
  \/ Tick
  \/ \E c \in CallIds :
       \/ c = 1 /\ calls[c].op = "idle" /\ \E e \in RoundTripEntries : PutCall(c, e)
       \/ Quiet /\ GetCall(c, StoreKey)
       \/ PutMkdir(c)
       \/ AtomicWriteTemp(c)
       \/ AtomicWriteReplace(c)
       \/ GetExistsData(c)
       \/ GetExistsMeta(c)
       \/ GetReadMeta(c)
       \/ GetReadData(c)

SpecRoundTrip == InitStore /\ [][NextRoundTrip]_vars

(***************************************************************************)
(* The manager used by one caller at a time, and closed between two calls. *)
(***************************************************************************)
\* no call has begun or every result was taken
AllIdle == \A b \in CallIds : calls[b].op = "idle"

\* the patterns handed to invalidate_pattern
Patterns == { <<"d","/","*">>, <<"*","*","/","*",".","t","x","t">> }

NextClosed ==
  \/ AllIdle /\ Close
  \/ \E c \in CallIds :
       \/ \E force_refresh \in BOOLEAN : FetchCall(c, StorePath, force_refresh, None)
       \/ FetchCheck(c)
       \/ FetchHit(c)
       \/ FetchPlainError(c)
       \/ FetchFallback(c)
       \/ FetchPlain(c)
       \/ FetchStored(c)
       \/ c = 1 /\ AllIdle /\ \E op \in {"get_cached", "is_cached", "is_fresh"} : GetCachedCall(c, op, StorePath)
       \/ c = 1 /\ AllIdle /\ InvalidateCall(c, StorePath)
       \/ c = 1 /\ AllIdle /\ \E pattern \in Patterns : InvalidatePatternCall(c, pattern)
       \/ c = 1 /\ AllIdle /\ ClearCall(c)
       \/ c = 1 /\ AllIdle /\ CleanupCall(c)
       \/ c = 1 /\ AllIdle /\ StatsCall(c)
       \/ TakeResult(c)
       \/ PutMkdir(c)
       \/ AtomicWriteTemp(c)
       \/ AtomicWriteReplace(c)
       \/ GetExistsData(c)
       \/ GetExistsMeta(c)
       \/ GetReadMeta(c)
       \/ GetReadData(c)
       \/ DeleteData(c)
       \/ DeleteMeta(c)
       \/ DeleteRmdir(c)
       \/ KeysScan(c)
       \/ KeysReadMeta(c)
       \/ EntriesGot(c)
       \/ WalkEnd(c)
       \/ Sweep(c)
       \/ CountDeleted(c)
       \/ ReadDone(c)
       \/ CleanupDone(c)
       \/ StatsDone(c)

SpecClosed == Init /\ [][NextClosed]_vars

(***************************************************************************)
(* The manager closed while the cleanup task a fetch created is running:   *)
(* CacheManager(cleanup_interval=1), fetches with ttl=1.                   *)
(***************************************************************************)
InitClose ==
  /\ now = 0
  /\ files = <<>>
  /\ dirs = {}
  /\ calls = [c \in CallIds |-> IdleCall]
  /\ last_replace = 0
  /\ mgr = [InitManager EXCEPT !.cleanup_interval = 1]

NextClose ==
  \/ Tick
  \/ Close
  \/ \E c \in CallIds :
       \/ FetchCall(c, StorePath, TRUE, Some(1))
       \/ FetchPlain(c)
       \/ FetchStored(c)
       \/ TakeResult(c)
       \/ TaskRun(c)
       \/ PutMkdir(c)
       \/ AtomicWriteTemp(c)
       \/ AtomicWriteReplace(c)
       \/ GetExistsData(c)
       \/ GetExistsMeta(c)
       \/ GetReadMeta(c)
       \/ GetReadData(c)
       \/ DeleteData(c)
       \/ DeleteMeta(c)
       \/ DeleteRmdir(c)
       \/ KeysScan(c)
       \/ KeysReadMeta(c)
       \/ EntriesGot(c)
       \/ WalkEnd(c)
       \/ Sweep(c)
       \/ CountDeleted(c)
       \/ CleanupDone(c)

SpecClose == InitClose /\ [][NextClose]_vars

(***************************************************************************)
(* One fetch(path, storage, ttl=..., force_refresh=True) on a new manager, *)
(* for request paths of each form _get_ttl tells apart.                    *)
(***************************************************************************)
\* codex://o/p/bin/x/y
CodexBinPath == <<"c","o","d","e","x",":","/","/","o","/","p","/","b","i","n","/","x","/","y">>

\* https://h/templates/a/b
UrlTemplatePath == <<"h","t","t","p","s",":","/","/","h","/","t","e","m","p","l","a","t","e","s","/","a","/","b">>

\* a.yaml
YamlPath == <<"a",".","y","a","m","l">>

\* x.bin, which no pattern of a built-in type matches
NoTypePath == <<"x",".","b","i","n">>

TtlPaths == {CodexBinPath, UrlTemplatePath, YamlPath, StorePath, NoTypePath}

\* the ttl argument: absent, zero, one tick
TtlChoices == {None, Some(0), Some(1)}

NextTtl ==
  \E c \in CallIds :
    \/ \E path \in TtlPaths, ttl \in TtlChoices : FetchCall(c, path, TRUE, ttl)
    \/ FetchPlain(c)
    \/ FetchStored(c)
    \/ PutMkdir(c)
    \/ AtomicWriteTemp(c)
    \/ AtomicWriteReplace(c)

SpecTtl == Init /\ [][NextTtl]_vars

(***************************************************************************)
(* The manager under one caller: fetches of one path, one after the other, *)
(* the sidecar of the stored entry damaged from outside between two calls; *)
(* the clock advances between calls.                                       *)
(***************************************************************************)
NextFaulty ==
  \/ AllIdle /\ Tick
  \/ \E c \in CallIds :
       \/ \E force_refresh \in BOOLEAN : FetchCall(c, StorePath, force_refresh, Some(1))
       \/ \E kind \in MalformedKinds : CorruptMeta(c, kind)
       \/ FetchCheck(c)
       \/ FetchHit(c)
       \/ FetchConditionalError(c)
       \/ FetchConditional(c)
       \/ FetchRevalidated(c)
       \/ FetchPlainError(c)
       \/ FetchFallback(c)
       \/ FetchPlain(c)
       \/ FetchStored(c)
       \/ TakeResult(c)
       \/ PutMkdir(c)
       \/ AtomicWriteTemp(c)
       \/ AtomicWriteReplace(c)
       \/ GetExistsData(c)
       \/ GetExistsMeta(c)
       \/ GetReadMeta(c)
       \/ GetReadData(c)
       \/ DeleteData(c)
       \/ DeleteMeta(c)
       \/ DeleteRmdir(c)

SpecFaulty == Init /\ [][NextFaulty]_vars

(***************************************************************************)
(* The store and the manager used by one caller at a time on two keys, one *)
(* in a subdirectory and one in cache_dir itself, while the clock advances.*)
(***************************************************************************)
\* b.md
RootPath == <<"b",".","m","d">>

RootKey == GenerateCacheKey(RootPath, None)

OpsPaths == {StorePath, RootPath}

OpsKeys == {StoreKey, RootKey}

\* the entries handed to put: one that expires after a tick, one that lasts
OpsEntries ==
  {CacheEntry(key, IF key = StoreKey THEN <<1>> ELSE <<2>>, "text/markdown", Some("utf-8"),
              None, None, 0, None, ttl, 0, <<>>, hit_count, Some("local"))
     : key \in OpsKeys, ttl \in {1, TTL_HOUR}, hit_count \in {0, 1}}

\* the patterns handed to invalidate_pattern: d/*, **/*.txt, *.md
OpsPatterns == Patterns \cup { <<"*",".","m","d">> }

\* the methods of the store that are called
StoreOps == {"exists", "get", "delete", "clear", "clear_expired", "stats"}

NextOps ==
  \/ Tick
  \/ \E c \in CallIds :
       \/ c = 1 /\ AllIdle /\ \E e \in OpsEntries : PutCall(c, e)
       \/ c = 1 /\ AllIdle /\ \E op \in StoreOps, key \in OpsKeys : StoreCall(c, op, key)
       \/ c = 1 /\ AllIdle /\ \E op \in {"get_cached", "is_cached", "is_fresh"}, path \in OpsPaths :
            GetCachedCall(c, op, path)
       \/ c = 1 /\ AllIdle /\ \E path \in OpsPaths : InvalidateCall(c, path)
       \/ c = 1 /\ AllIdle /\ \E pattern \in OpsPatterns : InvalidatePatternCall(c, pattern)
       \/ c = 1 /\ AllIdle /\ ClearCall(c)
       \/ c = 1 /\ AllIdle /\ CleanupCall(c)
       \/ TakeResult(c)
       \/ PutMkdir(c)
       \/ AtomicWriteTemp(c)
       \/ AtomicWriteReplace(c)
       \/ GetExistsData(c)
       \/ GetExistsMeta(c)
       \/ GetReadMeta(c)
       \/ GetReadData(c)
       \/ DeleteData(c)
       \/ DeleteMeta(c)
       \/ DeleteRmdir(c)
       \/ KeysScan(c)
       \/ KeysReadMeta(c)
       \/ EntriesGot(c)
       \/ WalkEnd(c)
       \/ Sweep(c)
       \/ CountDeleted(c)
       \/ ReadDone(c)
       \/ CleanupDone(c)

SpecOps == Init /\ [][NextOps]_vars

(***************************************************************************)
(* delete and invalidate under one caller, on three keys: one two          *)
(* directories deep, one beside its parent directory, one in cache_dir.    *)
(* Between two calls one artifact of an entry may be lost from outside.    *)
(***************************************************************************)
\* d/e/a.md
NestedPath == <<"d","/","e","/","a",".","m","d">>

\* d/b.md
SiblingPath == <<"d","/","b",".","m","d">>

DeletePaths == {NestedPath, SiblingPath, RootPath}

DeleteKeys == {GenerateCacheKey(path, None) : path \in DeletePaths}

\* the entries handed to put, one for each key
DeleteEntries ==
  {CacheEntry(key, <<1>>, "text/markdown", Some("utf-8"), None, None, 0, None,
              TTL_HOUR, 0, <<>>, 0, Some("local"))
     : key \in DeleteKeys}

\* one artifact of an entry is unlinked from outside
LoseArtifact(c, key) ==
  /\ Artifacts(key) # {}
  /\ \E q \in Artifacts(key) : files' = Unlink(files, q)
  /\ calls' = [calls EXCEPT ![c] =
       [IdleCall EXCEPT !.op = "lose", !.pc = "done", !.key = key]]
  /\ UNCHANGED <<now, dirs, last_replace, mgr>>

NextDelete ==
  \E c \in CallIds :
    \/ c = 1 /\ AllIdle /\ \E e \in DeleteEntries : PutCall(c, e)
    \/ c = 1 /\ AllIdle /\ \E key \in DeleteKeys : StoreCall(c, "delete", key)
    \/ c = 1 /\ AllIdle /\ \E path \in DeletePaths : InvalidateCall(c, path)
    \/ c = 1 /\ AllIdle /\ \E key \in DeleteKeys : LoseArtifact(c, key)
    \/ TakeResult(c)
    \/ PutMkdir(c)
    \/ AtomicWriteTemp(c)
    \/ AtomicWriteReplace(c)
    \/ DeleteData(c)
    \/ DeleteMeta(c)
    \/ DeleteRmdir(c)

SpecDelete == Init /\ [][NextDelete]_vars

(***************************************************************************)
(* Fetches of one path by two callers that run at the same time, on a      *)
(* store that holds nothing when the first begins.  (With two callers no   *)
(* get reads the files of two different puts, so that no delete occurs.)   *)
(***************************************************************************)
\* the slots of the two callers
Fetchers == {1, 2}

NextConcurrent ==
  \E c \in Fetchers :
    \/ FetchBegin(c, StorePath, FALSE, None)
    \/ FetchCheck(c)
    \/ FetchHit(c)
    \/ FetchPlainError(c)
    \/ FetchFallback(c)
    \/ FetchPlain(c)
    \/ FetchStored(c)
    \/ PutMkdir(c)
    \/ AtomicWriteTemp(c)
    \/ AtomicWriteReplace(c)
    \/ GetExistsData(c)
    \/ GetExistsMeta(c)
    \/ GetReadMeta(c)
    \/ GetReadData(c)

SpecConcurrent == Init /\ [][NextConcurrent]_vars

(***************************************************************************)
(* One CacheEntry: constructed from arguments of every kind, refreshed,    *)
(* written to a dict and read back, while the clock advances.  The entry   *)
(* is kept in slot 1, with the arguments of the last operation on it.      *)
(***************************************************************************)
\* the ttl, expires_at and size arguments of the constructor
TtlValues == {0 - 1, 0, 1}

ExpiresValues == {None, Some(1)}

SizeValues == {0, 7}

\* CacheEntry(key=..., content=..., expires_at=..., ttl=..., size=..., hit_count=...)
\* is constructed at the clock's time
Construct(c, content, expires_at, ttl, size, hit_count) ==
  /\ calls[c].op = "idle"
  /\ calls' = [calls EXCEPT ![c] =
       [IdleCall EXCEPT
          !.op = "construct", !.pc = "done",
          !.doc = Some([at |-> now, expires_at |-> expires_at, ttl |-> ttl, size |-> size]),
          !.entry = Some(CacheEntry(StoreKey, content, "text/markdown", Some("utf-8"),
                                    None, None, now, expires_at, ttl, size, <<>>,
                                    hit_count, None))]]
  /\ UNCHANGED <<now, files, dirs, last_replace, mgr>>

\* entry.refresh(new_content, new_ttl) at the clock's time
RefreshEntry(c, new_content, new_ttl) ==
  /\ calls[c].op \in {"construct", "from_dict"}
  /\ calls' = [calls EXCEPT ![c] =
       [@ EXCEPT !.op = "refresh",
                 !.pre = calls[c].entry,
                 !.doc = Some([at |-> now, new_content |-> new_content, new_ttl |-> new_ttl]),
                 !.entry = Some(Refresh(calls[c].entry[1], new_content, new_ttl, now))]]
  /\ UNCHANGED <<now, files, dirs, last_replace, mgr>>

\* CacheEntry.from_dict(entry.to_dict(), entry.content)
Reload(c) ==
  /\ calls[c].op \in {"construct", "refresh"}
  /\ calls' = [calls EXCEPT ![c] =
       [@ EXCEPT !.op = "from_dict",
                 !.pre = calls[c].entry,
                 !.doc = Some(ToDict(calls[c].entry[1])),
                 !.entry = Some(FromDict(ToDict(calls[c].entry[1]), calls[c].entry[1].content, now))]]
  /\ UNCHANGED <<now, files, dirs, last_replace, mgr>>

NextEntry ==
  \/ Tick
  \/ \E content \in Contents, expires_at \in ExpiresValues, ttl \in TtlValues,
        size \in SizeValues, hit_count \in {0, 1} :
       Construct(1, content, expires_at, ttl, size, hit_count)
  \/ \E new_content \in Contents, new_ttl \in {None} \cup {Some(t) : t \in TtlValues} :
       RefreshEntry(1, new_content, new_ttl)
  \/ Reload(1)

SpecEntry == Init /\ [][NextEntry]_vars


(***************************************************************************)
(* _key_to_path on keys of every shape: up to MaxKeyChars characters of    *)
(* segments and separators, each unsafe character, and keys at and past    *)
(* max_key_length.                                                         *)
(***************************************************************************)
MaxKeyChars == 6

\* keys of letters, separators and one unsafe character
SegmentKeys == UNION {[1..n -> {"a", "/", ":"}] : n \in 0..MaxKeyChars}

\* keys of up to two characters with each unsafe character, and a backslash
CharKeys == UNION {[1..n -> UnsafeChars \cup {"a", "\\"}] : n \in 0..2}

\* max_key_length characters in six segments
Filler == [i \in 1..MaxKeyLength |-> IF i % 40 = 0 THEN "/" ELSE "x"]

\* keys of max_key_length characters, and of one or two more
LongKeys == {Filler} \cup {s \o Filler : s \in {k \in CharKeys : Len(k) >= 1}}

MappedKeys == SegmentKeys \cup CharKeys \cup LongKeys

\* self._key_to_path(key), as _get_paths calls it
KeyToPathCall(c, key) ==
  /\ calls[c].op = "idle"
  /\ calls' = [calls EXCEPT ![c] =
       [IdleCall EXCEPT !.op = "key_to_path", !.pc = "done",
                        !.key = key, !.path = KeyToPath(key)]]
  /\ UNCHANGED <<now, files, dirs, last_replace, mgr>>

NextKeys ==
  \/ \E key \in MappedKeys : KeyToPathCall(1, key)
  \/ TakeResult(1)

SpecKeys == Init /\ [][NextKeys]_vars

(***************************************************************************)
(* One TypeRegistry: created with or without the built-in types, types     *)
(* registered and unregistered, get_ttl asked for paths.                   *)
(***************************************************************************)
\* ArtifactType(name="nested", patterns=["a/**/z.md"], ttl=1000)
NestedType ==
  [name |-> "nested", ttl |-> 1000, priority |-> 0, patterns |-> <<
        <<"a","/","*","*","/","z",".","m","d">>>>]

\* ArtifactType(name="api-docs", patterns=["docs/api/**/*.md"], ttl=3600, priority=100)
ApiDocsType ==
  [name |-> "api-docs", ttl |-> 3600, priority |-> 100, patterns |-> <<
        <<"d","o","c","s","/","a","p","i","/","*","*","/","*",".","m","d">>>>]

\* a type registered under the name of a built-in one, with its priority
DocsAgainType ==
  [name |-> "docs", ttl |-> 60, priority |-> 10, patterns |-> <<
        <<"d","o","c","s","/","*","*">>>>]

\* a type with the priority of the built-in docs and every path as pattern
NotesType ==
  [name |-> "notes", ttl |-> 300, priority |-> 10, patterns |-> <<
        <<"*","*">>>>]

CustomTypes == {NestedType, ApiDocsType, DocsAgainType, NotesType}

\* docs/api.md
DocsApiPath == <<"d","o","c","s","/","a","p","i",".","m","d">>

\* docs/api/x.md
DocsApiNestedPath == <<"d","o","c","s","/","a","p","i","/","x",".","m","d">>

\* /docs/api.md
RootedDocsPath == <<"/">> \o DocsApiPath

\* docs\api\x.md
BackslashDocsPath == <<"d","o","c","s","\\","a","p","i","\\","x",".","m","d">>

\* a/z.md
NestedZeroPath == <<"a","/","z",".","m","d">>

\* a/b/c/z.md
NestedTwoPath == <<"a","/","b","/","c","/","z",".","m","d">>

\* a/x.md
NestedOtherPath == <<"a","/","x",".","m","d">>

\* a/z.txt
NestedTextPath == <<"a","/","z",".","t","x","t">>

\* random/unknown.xyz
UnknownPath == <<"r","a","n","d","o","m","/","u","n","k","n","o","w","n",".","x","y","z">>

\* agents/x.skill.md, which a pattern of agents and one of skills match
AgentSkillPath == <<"a","g","e","n","t","s","/","x",".","s","k","i","l","l",".","m","d">>

RegistryPaths ==
  {DocsApiPath, DocsApiNestedPath, RootedDocsPath, BackslashDocsPath, NestedZeroPath,
   NestedTwoPath, NestedOtherPath, NestedTextPath, UnknownPath, AgentSkillPath}

\* TypeRegistry(include_builtins=...)
NewRegistry(c, include_builtins) ==
  /\ calls[c].op = "idle"
  /\ calls' = [calls EXCEPT ![c] =
       [IdleCall EXCEPT !.op = "registry", !.pc = "done",
                        !.doc = Some(IF include_builtins THEN BUILT_IN_TYPES ELSE <<>>)]]
  /\ UNCHANGED <<now, files, dirs, last_replace, mgr>>

\* registry.register(type_def)
Register(c, type_def) ==
  /\ calls[c].op = "registry"
  /\ calls' = [calls EXCEPT ![c] =
       [@ EXCEPT !.doc = Some(RegisterType(calls[c].doc[1], type_def)),
                 !.path = <<>>, !.ttl = None]]
  /\ UNCHANGED <<now, files, dirs, last_replace, mgr>>

\* registry.unregister(name)
Unregister(c, name) ==
  /\ calls[c].op = "registry"
  /\ calls' = [calls EXCEPT ![c] =
       [@ EXCEPT !.doc = Some(UnregisterType(calls[c].doc[1], name)),
                 !.path = <<>>, !.ttl = None]]
  /\ UNCHANGED <<now, files, dirs, last_replace, mgr>>

\* registry.get_ttl(path)
GetTtlCall(c, path) ==
  /\ calls[c].op = "registry"
  /\ calls' = [calls EXCEPT ![c] =
       [@ EXCEPT !.path = path, !.ttl = Some(RegistryGetTtl(calls[c].doc[1], path))]]
  /\ UNCHANGED <<now, files, dirs, last_replace, mgr>>

NextRegistry ==
  \/ \E include_builtins \in BOOLEAN : NewRegistry(1, include_builtins)
  \/ \E type_def \in CustomTypes : Register(1, type_def)
  \/ \E name \in {"docs", "nested", "prompts"} : Unregister(1, name)
  \/ \E path \in RegistryPaths : GetTtlCall(1, path)

SpecRegistry == Init /\ [][NextRegistry]_vars

(***************************************************************************)
(* put and get, one call at a time, on keys that differ only in an unsafe  *)
(* character or in the separator of their deeper segments.                 *)
(***************************************************************************)
\* a:b, a*b, a_b, a/b/c/d/e, a/b/c_d_e, x
CollideKeys ==
  { <<"a",":","b">>, <<"a","*","b">>, <<"a","_","b">>,
    <<"a","/","b","/","c","/","d","/","e">>, <<"a","/","b","/","c","_","d","_","e">>,
    <<"x">> }

\* the entries handed to put
CollideEntries ==
  {CacheEntry(key, content, "text/markdown", Some("utf-8"), None, None, 0,
              None, TTL_HOUR, 0, <<>>, 0, Some("local"))
     : key \in CollideKeys, content \in Contents}

NextCollide ==
  \/ AllIdle /\ \E e \in CollideEntries : PutCall(1, e)
  \/ AllIdle /\ \E key \in CollideKeys : GetCall(1, key)
  \/ TakeResult(1)
  \/ PutMkdir(1)
  \/ AtomicWriteTemp(1)
  \/ AtomicWriteReplace(1)
  \/ GetExistsData(1)
  \/ GetExistsMeta(1)
  \/ GetReadMeta(1)
  \/ GetReadData(1)

SpecCollide == Init /\ [][NextCollide]_vars

(***************************************************************************)
(* Two fetches of one path that run at the same time on a store that holds *)
(* a fresh entry of it: a first fetch stores the entry and returns, then   *)
(* one caller fetches and the other fetches or forces a refresh.  The      *)
(* clock stands still, so the entry stays fresh.                           *)
(***************************************************************************)
\* the slot of the fetch that stores the first entry
FirstFetcher == NumCalls

\* the first fetch has returned
Populated == calls[FirstFetcher].op = "fetch" /\ calls[FirstFetcher].pc = "done"

NextRace ==
  \/ AllIdle /\ FetchBegin(FirstFetcher, StorePath, FALSE, None)
  \/ Populated /\ FetchBegin(1, StorePath, FALSE, None)
  \/ Populated /\ \E force_refresh \in BOOLEAN : FetchBegin(2, StorePath, force_refresh, None)
  \/ \E c \in CallIds :
       \/ FetchCheck(c)
       \/ FetchHit(c)
       \/ FetchPlainError(c)
       \/ FetchFallback(c)
       \/ FetchPlain(c)
       \/ FetchStored(c)
       \/ PutMkdir(c)
       \/ AtomicWriteTemp(c)
       \/ AtomicWriteReplace(c)
       \/ GetExistsData(c)
       \/ GetExistsMeta(c)
       \/ GetReadMeta(c)
       \/ GetReadData(c)
       \/ DeleteData(c)
       \/ DeleteMeta(c)
       \/ DeleteRmdir(c)

SpecRace == Init /\ [][NextRace]_vars

(***************************************************************************)
(* put and get on one key, one call at a time, where a write or a rename   *)
(* of a put may fail with OSError.                                         *)
(***************************************************************************)
\* put(entry) by a caller that knows what get returned before
PutOver(c, e) ==
  /\ calls[c].op = "idle"
  /\ calls' = [calls EXCEPT ![c] =
       [IdleCall EXCEPT !.op = "put", !.pc = "put_mkdir", !.key = e.key, !.entry = Some(e),
                        !.pre = StoreView(e.key)]]
  /\ UNCHANGED <<now, files, dirs, last_replace, mgr>>

NextWriteFail ==
  \/ AllIdle /\ \E e \in PutEntries : PutOver(1, e)
  \/ AllIdle /\ GetCall(1, StoreKey)
  \/ TakeResult(1)
  \/ PutMkdir(1)
  \/ AtomicWriteTemp(1)
  \/ AtomicWriteReplace(1)
  \/ AtomicWriteFails(1)
  \/ AtomicReplaceFails(1)
  \/ GetExistsData(1)
  \/ GetExistsMeta(1)
  \/ GetReadMeta(1)
  \/ GetReadData(1)
  \/ DeleteData(1)
  \/ DeleteMeta(1)
  \/ DeleteRmdir(1)

SpecWriteFail == Init /\ [][NextWriteFail]_vars

(***************************************************************************)
(* cleanup() running at the same time as a fetch of the one stored path: a *)
(* first fetch stores an entry that lasts one tick, the clock advances,    *)
(* and then one caller fetches while the other sweeps.                     *)
(***************************************************************************)
\* the slot of the sweep
Sweeper == TaskSlot

\* neither the second fetch nor the sweep has begun
NotBegun == \A c \in CallIds \ {FirstFetcher} : calls[c].op = "idle"

NextSweep ==
  \/ Populated /\ NotBegun /\ Tick
  \/ AllIdle /\ FetchBegin(FirstFetcher, StorePath, FALSE, Some(1))
  \/ Populated /\ \E force_refresh \in BOOLEAN : FetchBegin(1, StorePath, force_refresh, Some(1))
  \/ Populated /\ CleanupCall(Sweeper)
  \/ \E c \in CallIds :
       \/ FetchCheck(c)
       \/ FetchHit(c)
       \/ FetchConditionalError(c)
       \/ FetchConditional(c)
       \/ FetchRevalidated(c)
       \/ FetchPlainError(c)
       \/ FetchFallback(c)
       \/ FetchPlain(c)
       \/ FetchStored(c)
       \/ PutMkdir(c)
       \/ AtomicWriteTemp(c)
       \/ AtomicWriteReplace(c)
       \/ GetExistsData(c)
       \/ GetExistsMeta(c)
       \/ GetReadMeta(c)
       \/ GetReadData(c)
       \/ DeleteData(c)
       \/ DeleteMeta(c)
       \/ DeleteRmdir(c)
       \/ KeysScan(c)
       \/ KeysReadMeta(c)
       \/ EntriesGot(c)
       \/ WalkEnd(c)
       \/ Sweep(c)
       \/ CountDeleted(c)
       \/ CleanupDone(c)

SpecSweep == Init /\ [][NextSweep]_vars

(***************************************************************************)
(* _get_paths on keys with '.', '..' and leading separators, given to the  *)
(* store as they are or derived by generate_cache_key from a request path; *)
(* the paths are the parts of absolute paths.                              *)
(***************************************************************************)
\* cache_dir = Path("/a"): the root and one name
CacheDirParts == << <<"/">>, <<"a">> >>

\* the names pathlib keeps of a string: what is between separators, without
\* the empty names and the '.' names; '..' is kept
PathParts(s) == SelectSeq(S_Split(s, "/"), LAMBDA p : p # <<>> /\ p # <<".">>)

\* the root pathlib gives an absolute string: exactly two leading separators
\* are a root of their own
PathRoot(s) ==
  IF Len(s) >= 2 /\ s[2] = "/" /\ (Len(s) = 2 \/ s[3] # "/") THEN <<"/", "/">> ELSE <<"/">>

\* self.cache_dir / name: an absolute name replaces cache_dir
JoinCacheDir(name) ==
  IF name # <<>> /\ name[1] = "/" THEN <<PathRoot(name)>> \o PathParts(name)
  ELSE CacheDirParts \o PathParts(name)

\* the file the operating system opens for the parts of an absolute path:
\* either root is the root, '..' leaves the directory reached so far and
\* stays at the root
RECURSIVE Resolve(_)
Resolve(parts) ==
  IF Len(parts) <= 1 THEN << <<"/">> >>
  ELSE LET above == Resolve(SubSeq(parts, 1, Len(parts) - 1))
       IN IF parts[Len(parts)] = <<".", ".">>
            THEN (IF Len(above) = 1 THEN above ELSE SubSeq(above, 1, Len(above) - 1))
            ELSE Append(above, parts[Len(parts)])

\* the directories the loop of delete hands to rmdir: content_path.parent and
\* its parents, up to the first that equals cache_dir part by part, or to
\* the root when none does
RmdirTargets(parts) ==
  LET n == Len(CacheDirParts)
      first == IF Len(parts) > n /\ SubSeq(parts, 1, n) = CacheDirParts THEN n + 1 ELSE 1
  IN {SubSeq(parts, 1, k) : k \in first..(Len(parts) - 1)}

\* keys of letters, dots and separators
DotKeys == UNION {[1..n -> {"a", "/", "."}] : n \in 0..MaxKeyChars}

\* codex://, the scheme generate_cache_key removes
CodexScheme == <<"c","o","d","e","x",":","/","/">>

\* request paths: the keys as paths, and codex:// URIs of the shorter ones
DotRequests == DotKeys \cup {CodexScheme \o k : k \in {d \in DotKeys : Len(d) <= 4}}

\* self._get_paths(key)
GetPathsCall(c, key) ==
  /\ calls[c].op = "idle"
  /\ calls' = [calls EXCEPT ![c] =
       [IdleCall EXCEPT !.op = "get_paths", !.pc = "done", !.key = key,
                        !.path = JoinCacheDir(ContentPath(key)),
                        !.ret = JoinCacheDir(MetaPath(key))]]
  /\ UNCHANGED <<now, files, dirs, last_replace, mgr>>

NextPaths ==
  \/ \E key \in DotKeys : GetPathsCall(1, key)
  \/ \E path \in DotRequests : GetPathsCall(1, GenerateCacheKey(path, None))
  \/ TakeResult(1)

SpecPaths == Init /\ [][NextPaths]_vars

(***************************************************************************)
(* Fetches through two providers: a first fetch through one of them stores *)
(* an entry with a ttl of one tick and returns, the clock may advance, and *)
(* a second caller fetches through either provider.                        *)
(***************************************************************************)
Storages == {LocalName, HttpName}

NextProviders ==
  \/ AllIdle /\ \E path \in FetchPaths, storage \in Storages :
       FetchThrough(FirstFetcher, path, storage, FALSE, Some(1))
  \/ Populated /\ calls[1].op = "idle" /\ Tick
  \/ Populated /\ \E path \in FetchPaths, storage \in Storages, force_refresh \in BOOLEAN :
       FetchThrough(1, path, storage, force_refresh, None)
  \/ \E c \in CallIds :
       \/ FetchCheck(c)
       \/ FetchHit(c)
       \/ FetchConditionalError(c)
       \/ FetchConditional(c)
       \/ FetchRevalidated(c)
       \/ FetchPlainError(c)
       \/ FetchFallback(c)
       \/ FetchPlain(c)
       \/ FetchStored(c)
       \/ PutMkdir(c)
       \/ AtomicWriteTemp(c)
       \/ AtomicWriteReplace(c)
       \/ GetExistsData(c)
       \/ GetExistsMeta(c)
       \/ GetReadMeta(c)
       \/ GetReadData(c)

SpecProviders == Init /\ [][NextProviders]_vars
(***************************************************************************)
(* Claims about CacheManager.fetch, one call after the other.              *)
(***************************************************************************)
\* a fetch that has ended, and one that has ended by returning a result
FetchDone(c) == calls[c].op = "fetch" /\ calls[c].pc = "done"

Returned(c) == calls[c].err = "" /\ calls[c].result # None

\* the result of the call carries tag k with value v in its metadata
HasTag(c, k, v) ==
  /\ k \in DOMAIN calls[c].result[1].metadata
  /\ calls[c].result[1].metadata[k] = v

\* the entry the store holds for the key of the call
Stored(c) == StoreView(calls[c].key)

\* the last request the call made to the provider
LastRequest(c) == calls[c].requests[Len(calls[c].requests)]

\* C1: a fetch without forceRefresh on a key whose stored entry is still
\* fresh returns the stored content tagged fromCache=true, asks the provider
\* nothing, and leaves the entry stored with its hit count one higher
C1_FreshHitCountsAndReturnsCached ==
  \A c \in CallIds :
    (FetchDone(c) /\ ~calls[c].force_refresh /\ calls[c].pre # None
       /\ IsFresh(calls[c].pre[1], now))
      => /\ Returned(c)
         /\ calls[c].result[1].content = calls[c].pre[1].content
         /\ HasTag(c, "from_cache", TRUE)
         /\ "stale" \notin DOMAIN calls[c].result[1].metadata
         /\ calls[c].requests = <<>>
         /\ Stored(c) = Some([calls[c].pre[1] EXCEPT !.hit_count = @ + 1])

\* a fetch has hit an entry that had been hit before
C1_Witness ==
  \E c \in CallIds :
    /\ FetchDone(c) /\ ~calls[c].force_refresh /\ calls[c].pre # None
    /\ IsFresh(calls[c].pre[1], now)
    /\ calls[c].pre[1].hit_count = 1
    /\ Returned(c) /\ HasTag(c, "from_cache", TRUE)

\* C2: when the conditional request for a stale entry raises a storage
\* error, fetch raises nothing and returns the stale content tagged
\* fromCache=true and stale=true, the store left as it was
C2_StaleServedWhenRevalidationFails ==
  \A c \in CallIds :
    (FetchDone(c) /\ calls[c].requests # <<>>
       /\ calls[c].requests[1].conditional /\ calls[c].requests[1].response = None)
      => /\ Returned(c)
         /\ Len(calls[c].requests) = 1
         /\ calls[c].pre # None
         /\ calls[c].result[1].content = calls[c].pre[1].content
         /\ HasTag(c, "from_cache", TRUE)
         /\ HasTag(c, "stale", TRUE)
         /\ Stored(c) = calls[c].pre

\* a conditional request has failed and the call has returned
C2_Witness ==
  \E c \in CallIds :
    /\ FetchDone(c) /\ calls[c].requests # <<>>
    /\ calls[c].requests[1].conditional /\ calls[c].requests[1].response = None
    /\ calls[c].pre # None /\ IsExpired(calls[c].pre[1], calls[c].requests[1].at)
    /\ Returned(c)

\* C3: when the plain fetch raises a storage error, an entry the store holds,
\* fresh or expired, is returned tagged fromCache=true and stale=true, and
\* the error is re-raised exactly when the store holds none
C3_StaleServedWhenFetchFails ==
  \A c \in CallIds :
    (FetchDone(c) /\ calls[c].requests # <<>>
       /\ ~LastRequest(c).conditional /\ LastRequest(c).response = None)
      => IF Stored(c) # None
           THEN /\ Returned(c)
                /\ calls[c].result[1].content = Stored(c)[1].content
                /\ HasTag(c, "from_cache", TRUE)
                /\ HasTag(c, "stale", TRUE)
                /\ Stored(c) = calls[c].pre
           ELSE /\ calls[c].err = "STORAGE_ERROR"
                /\ calls[c].result = None

\* a forced fetch has failed at the provider while the stored entry was
\* still fresh, and the call has returned it
C3_Witness ==
  \E c \in CallIds :
    /\ FetchDone(c) /\ calls[c].requests # <<>>
    /\ ~LastRequest(c).conditional /\ LastRequest(c).response = None
    /\ Stored(c) # None /\ IsFresh(Stored(c)[1], now)
    /\ Returned(c)

\* the provider's answer says "not modified": the flag, or an etag equal to
\* the stored one
AnswersNotModified(response, entry) ==
  \/ Get(response.metadata, "not_modified", FALSE)
  \/ (response.etag # None /\ response.etag = entry.etag)

\* the conditional request of the call was answered "not modified"
Revalidated(c) ==
  /\ FetchDone(c) /\ calls[c].requests # <<>> /\ calls[c].pre # None
  /\ calls[c].requests[1].conditional /\ calls[c].requests[1].response # None
  /\ AnswersNotModified(calls[c].requests[1].response[1], calls[c].pre[1])

\* C4: the conditional request carries the stored etag as if-none-match and
\* the stored lastModified as if-modified-since; when it is answered "not
\* modified" the stored bytes stay, fetchedAt becomes the time of the answer
\* and expiresAt that time plus the ttl, the entry is persisted, and its
\* content is returned tagged fromCache=true with no further request
C4_NotModifiedRefreshesWindow ==
  \A c \in CallIds :
    /\ (FetchDone(c) /\ calls[c].requests # <<>> /\ calls[c].requests[1].conditional)
         => /\ calls[c].pre # None
            /\ calls[c].requests[1].if_none_match = calls[c].pre[1].etag
            /\ calls[c].requests[1].if_modified_since = calls[c].pre[1].last_modified
    /\ Revalidated(c)
         => /\ Len(calls[c].requests) = 1
            /\ Returned(c)
            /\ calls[c].result[1].content = calls[c].pre[1].content
            /\ HasTag(c, "from_cache", TRUE)
            /\ "stale" \notin DOMAIN calls[c].result[1].metadata
            /\ Stored(c) = Some([calls[c].pre[1] EXCEPT
                 !.fetched_at = calls[c].requests[1].at,
                 !.expires_at = IF calls[c].pre[1].ttl > 0
                                  THEN Some(calls[c].requests[1].at + calls[c].pre[1].ttl)
                                  ELSE None])
            /\ IsFresh(Stored(c)[1], calls[c].requests[1].at)

\* an expired entry has been revalidated by an etag match, without the flag,
\* and its window starts later than before
C4_Witness ==
  \E c \in CallIds :
    /\ Revalidated(c)
    /\ ~Get(calls[c].requests[1].response[1].metadata, "not_modified", FALSE)
    /\ Returned(c)
    /\ Stored(c) # None
    /\ Stored(c)[1].fetched_at > calls[c].pre[1].fetched_at

\* C5: a fetch with forceRefresh makes exactly one request, a plain one,
\* whatever the store holds; when the provider answers, the answer's content
\* is returned, not tagged fromCache=true, and the stored entry holds it
C5_ForceRefreshAlwaysFetches ==
  \A c \in CallIds :
    (FetchDone(c) /\ calls[c].force_refresh)
      => /\ Len(calls[c].requests) = 1
         /\ ~calls[c].requests[1].conditional
         /\ calls[c].requests[1].response # None
              => /\ Returned(c)
                 /\ calls[c].result[1].content = calls[c].requests[1].response[1].content
                 /\ ~HasTag(c, "from_cache", TRUE)
                 /\ Stored(c) # None
                 /\ Stored(c)[1].content = calls[c].requests[1].response[1].content
                 /\ Stored(c)[1].fetched_at = calls[c].requests[1].at
                 /\ Stored(c)[1].hit_count = 0

\* a forced fetch has replaced a fresh entry with other content
C5_Witness ==
  \E c \in CallIds :
    /\ FetchDone(c) /\ calls[c].force_refresh
    /\ calls[c].pre # None /\ IsFresh(calls[c].pre[1], now)
    /\ Returned(c)
    /\ calls[c].result[1].content # calls[c].pre[1].content
    /\ Stored(c) # None /\ Stored(c)[1].content = calls[c].result[1].content

\* the call found no entry and the provider answered its request
Missed(c) ==
  /\ FetchDone(c) /\ calls[c].pre = None /\ calls[c].requests # <<>>
  /\ LastRequest(c).response # None

\* the call is the unforced fetch that follows a miss of the same path, its
\* entry still fresh
FollowsMiss(c) ==
  /\ FetchDone(c) /\ ~calls[c].force_refresh
  /\ calls[c].prev # None
  /\ calls[c].prev[1].path = calls[c].path
  /\ calls[c].pre # None /\ IsFresh(calls[c].pre[1], now)

\* what C6 says of the two calls, but for the tag of the first result
MissThenHit(c) ==
  /\ Missed(c)
       => /\ Len(calls[c].requests) = 1
          /\ Returned(c)
          /\ calls[c].result[1].content = LastRequest(c).response[1].content
          /\ Stored(c) # None
          /\ Stored(c)[1].content = LastRequest(c).response[1].content
  /\ FollowsMiss(c)
       => /\ Returned(c)
          /\ calls[c].result[1].content = calls[c].prev[1].result.content
          /\ HasTag(c, "from_cache", TRUE)

\* C6 as stated: on a miss the provider is asked, the new entry is persisted
\* and the result is returned tagged fromCache=false; the fetch that follows
\* returns the same content tagged fromCache=true
C6_MissReturnsTaggedNotFromCache ==
  \A c \in CallIds :
    /\ MissThenHit(c)
    /\ Missed(c) => HasTag(c, "from_cache", FALSE)

\* C6 amended: on a miss the provider is asked, the new entry is persisted
\* and the provider's answer is returned as it came, with no fromCache tag at
\* all; the fetch that follows returns the same content tagged fromCache=true
C6_MissReturnsProviderResult ==
  \A c \in CallIds :
    /\ MissThenHit(c)
    /\ Missed(c)
         => /\ calls[c].result[1] = LastRequest(c).response[1]
            /\ "from_cache" \notin DOMAIN calls[c].result[1].metadata

\* the fetch after a miss has returned the content the miss returned
C6_Witness ==
  \E c \in CallIds :
    /\ FollowsMiss(c)
    /\ Returned(c)
    /\ calls[c].result[1].content # <<>>
    /\ calls[c].result[1].content = calls[c].prev[1].result.content

(***************************************************************************)
(* Claims about the store under concurrent calls.                          *)
(***************************************************************************)
\* the slots holding a put, a finished put, a finished get
IsPut(c) == calls[c].op = "put"

PutDone(c) == calls[c].op = "put" /\ calls[c].pc = "done" /\ calls[c].err = ""

GetDone(c) == calls[c].op = "get" /\ calls[c].pc = "done"

\* C7: a get that runs among concurrent puts on its key returns absent or an
\* entry whose content and metadata are those of one single put, never the
\* content of one put with the metadata of another
C7_GetReturnsOneGeneration ==
  \A g \in CallIds :
    (GetDone(g) /\ calls[g].ret # None)
      => \E w \in CallIds : IsPut(w) /\ calls[w].entry = calls[g].ret

\* a get has returned an entry other than the one stored when it began, so a
\* put landed while it ran
C7_Witness ==
  \E g \in CallIds :
    /\ GetDone(g)
    /\ calls[g].pre # None
    /\ calls[g].ret # None
    /\ calls[g].ret # calls[g].pre

\* C8 as stated: a get on a key that held a complete entry when it began
\* returns a complete version of the entry, old or new, whatever put runs
\* beside it
C8_GetReturnsOldOrNew ==
  \A g \in CallIds :
    (GetDone(g) /\ calls[g].pre # None)
      => /\ calls[g].ret # None
         /\ \E w \in CallIds : IsPut(w) /\ calls[w].entry = calls[g].ret

\* C9 as stated: once every call is a put that has completed, the store
\* holds the complete entry of the writer whose rename landed last
C9_ConvergesToLastWriter ==
  (\A c \in CallIds : PutDone(c))
    => StoreView(StoreKey) = calls[last_replace].entry

\* the paths of the key's two artifacts
FinalPaths == {ContentPath(StoreKey), MetaPath(StoreKey)}

\* C10: at every step of a put, and after a writer died at any point, each
\* final path holds a file written to its end or no file; a file cut short
\* is only ever a temporary file
C10_FinalPathsHoldCompleteFiles ==
  \A q \in DOMAIN files :
    IF q \in FinalPaths
      THEN /\ files[q].whole
           /\ (q = ContentPath(StoreKey)) => files[q].json = None
           /\ (q = MetaPath(StoreKey)) => files[q].json # None
      ELSE \E c \in CallIds : q = TempPath(ContentPath(StoreKey), c)

\* a writer died in os.write: its temporary file is cut short while both
\* final paths hold complete files of an earlier put
C10_Witness ==
  /\ \E q \in DOMAIN files : ~files[q].whole
  /\ \E c \in CallIds : calls[c].op = "dead"
  /\ FinalPaths \subseteq DOMAIN files

(***************************************************************************)
(* Claims about the store whose files were damaged between two calls.      *)
(***************************************************************************)
\* slot g holds a finished get that was the first call after what slot d did
GetAfter(d, g) == g = d + 1 /\ g \in CallIds /\ GetDone(g)

\* C11: when the content file of a stored entry was changed while the
\* sidecar kept the old digest, the next get returns absent without raising
\* and leaves neither the content file nor the sidecar
C11_TamperedContentIsDropped ==
  \A d \in CallIds, g \in CallIds :
    (calls[d].op = "tamper" /\ GetAfter(d, g))
      => /\ calls[g].ret = None
         /\ calls[g].err = ""
         /\ FinalPaths \cap DOMAIN files = {}

\* a get has finished after the content file was changed
C11_Witness ==
  \E d \in CallIds, g \in CallIds : calls[d].op = "tamper" /\ GetAfter(d, g)

\* C12 as stated: whatever way the sidecar of a stored entry is malformed,
\* the next get returns absent without raising and leaves neither artifact
C12_GetNeverRaisesOnMalformedSidecar ==
  \A d \in CallIds, g \in CallIds :
    (calls[d].op = "corrupt" /\ GetAfter(d, g))
      => /\ calls[g].ret = None
         /\ calls[g].err = ""
         /\ FinalPaths \cap DOMAIN files = {}

\* the fields of an entry other than its metadata dict
EntryFields ==
  {"key", "content", "content_type", "encoding", "etag", "last_modified",
   "fetched_at", "expires_at", "ttl", "size", "hit_count", "source"}

\* C13: a get that follows a completed put of entry e, nothing else having
\* touched the key, returns an entry equal to e in content and in every
\* metadata field
C13_PutThenGetReturnsTheEntry ==
  \A g \in CallIds :
    (PutDone(1) /\ GetAfter(g - 1, g))
      => /\ calls[g].err = ""
         /\ calls[g].ret # None
         /\ \A f \in EntryFields : calls[g].ret[1][f] = calls[1].entry[1][f]

\* a get returned after the put of an entry that was hit once, has an empty
\* etag, no encoding, a given expiry and a size that is not its length
C13_Witness ==
  \E g \in CallIds :
    /\ PutDone(1) /\ GetAfter(g - 1, g)
    /\ calls[1].entry[1].hit_count = 1
    /\ calls[1].entry[1].etag = Some("")
    /\ calls[1].entry[1].encoding = None
    /\ calls[1].entry[1].expires_at = Some(5)
    /\ calls[1].entry[1].size = 7
    /\ now > 0

(***************************************************************************)
(* Claims about the manager's lifecycle.                                   *)
(***************************************************************************)
\* C14: once the manager is closed, every call that is started ends at once
\* with CacheError MANAGER_CLOSED, no file or directory of the store changes
\* and no request goes to the provider
C14_ClosedManagerRefusesEveryCall ==
  [][mgr.closed =>
       /\ files' = files
       /\ dirs' = dirs
       /\ \A c \in CallIds :
            calls'[c].op # "idle" =>
              /\ calls'[c].pc = "done"
              /\ calls'[c].err = "MANAGER_CLOSED"
              /\ calls'[c].requests = <<>>]_vars

\* a call of stats was refused by a closed manager whose store holds an entry
C14_Witness ==
  /\ mgr.closed
  /\ StoreView(StoreKey) # None
  /\ \E c \in CallIds : calls[c].op = "stats" /\ calls[c].err = "MANAGER_CLOSED"

\* C15 as stated: close cancels the cleanup task a fetch created, so that
\* once the manager is closed no content file and no sidecar is removed
C15_CloseStopsBackgroundCleanup ==
  [][mgr.closed => \A q \in FinalPaths : q \in DOMAIN files => q \in DOMAIN files']_vars

(***************************************************************************)
(* Claims about the TTL of the entry a fetch stores.                       *)
(***************************************************************************)
\* a fetch has returned what the provider answered to its plain request
PlainFetchDone(c) ==
  /\ calls[c].op = "fetch"
  /\ calls[c].pc = "done"
  /\ calls[c].err = ""
  /\ calls[c].requests # <<>>
  /\ ~calls[c].requests[Len(calls[c].requests)].conditional

\* the ttl of the entry stored under the key of call c; -1 when none is
StoredTtl(c) ==
  IF StoreView(calls[c].key) = None THEN 0 - 1 ELSE StoreView(calls[c].key)[1].ttl

\* the TTL the built-in types give the file path of each request path:
\* bin/x/y is a script, templates/a/b a template, a.yaml a config file,
\* d/a.md a document, and x.bin is of no type
TypeTtlOf(path) ==
  CASE path = CodexBinPath -> TTL_TWELVE_HOURS
    [] path = UrlTemplatePath -> TTL_WEEK
    [] path = YamlPath -> TTL_HOUR
    [] path = StorePath -> TTL_DAY
    [] path = NoTypePath -> DEFAULT_TTL

C17_NoTypeGetsManagerDefaultTtl ==
  \A c \in CallIds :
    (PlainFetchDone(c) /\ calls[c].ttl = None /\ calls[c].path = NoTypePath)
      => StoredTtl(c) = mgr.default_ttl

(***************************************************************************)
(* Claims about how a fetch ends.                                          *)
(***************************************************************************)
\* the codes of StorageError and of CacheError
TypedErrors == {"STORAGE_ERROR", "WRITE_ERROR", "MANAGER_CLOSED"}

\* the provider answered a request of the call
ProviderAnswered(c) ==
  \E i \in 1..Len(calls[c].requests) : calls[c].requests[i].response # None

\* the result of the call is the content of the entry stored when it began,
\* and that entry is fresh
FromFreshEntry(c) ==
  /\ calls[c].pre # None
  /\ calls[c].pre[1].content = calls[c].result[1].content
  /\ now < calls[c].pre[1].fetched_at + calls[c].pre[1].ttl

\* C18 as stated: a fetch ends with a result that comes from a fresh entry
\* or from the provider's answer to this call, or with a result tagged
\* stale=true, or with a StorageError or a CacheError, and with nothing else
C18_FetchEndsInOneOfThreeOutcomes ==
  \A c \in CallIds :
    FetchDone(c) =>
      \/ /\ Returned(c)
         /\ \/ HasTag(c, "stale", TRUE)
            \/ ProviderAnswered(c)
            \/ FromFreshEntry(c)
      \/ /\ calls[c].result = None
         /\ calls[c].err \in TypedErrors

(***************************************************************************)
(* Claims about what removes an entry.                                     *)
(***************************************************************************)
\* both artifacts of the key are in place
Present(key) == ContentPath(key) \in DOMAIN files /\ MetaPath(key) \in DOMAIN files

\* the calls that only read, and the calls that remove
ReaderOps == {"get", "exists", "get_cached", "is_cached", "is_fresh"}

RemoverOps == {"delete", "invalidate", "invalidate_pattern", "clear", "clear_expired", "cleanup"}

\* the entry's expiry time has come
ExpiredAt(e, t) == e.expires_at # None /\ t >= e.expires_at[1]

\* C19: no step of get, exists, get_cached, is_cached or is_fresh changes a
\* file or a directory of an uncorrupted store, whether the entry read is
\* expired or not; an entry whose two artifacts are in place loses one only
\* in a step of delete, invalidate, invalidate_pattern, clear, clear_expired
\* or cleanup
C19_ReadingRemovesNothing ==
  [][/\ (\E c \in CallIds : calls[c].op \in ReaderOps) => (files' = files /\ dirs' = dirs)
     /\ \A key \in OpsKeys :
          (Present(key) /\ ~Present(key)') =>
             \E c \in CallIds : calls[c].op \in RemoverOps /\ calls'[c] # calls[c]]_vars

\* is_fresh has answered False for an entry that had expired when the call
\* began, and the entry is still stored as it was
C19_Witness ==
  \E c \in CallIds :
    /\ calls[c].op = "is_fresh"
    /\ calls[c].pc = "done"
    /\ ~calls[c].answer
    /\ calls[c].key \in DOMAIN calls[c].pre[1]
    /\ ExpiredAt(calls[c].pre[1][calls[c].key], now)
    /\ StoreView(calls[c].key) = Some(calls[c].pre[1][calls[c].key])

\* clear_expired, or the cleanup that calls it, has returned
ClearExpiredDone(c) ==
  /\ calls[c].op \in {"clear_expired", "cleanup"}
  /\ calls[c].pc = "done"
  /\ calls[c].err = ""

\* the keys stored when the call began and stored no more
Removed(c) == {key \in DOMAIN calls[c].pre[1] : StoreView(key) = None}

\* C20: when clear_expired has returned, every entry it removed is expired,
\* the number it returned is the number it removed, and every entry that is
\* fresh is stored as it was when the call began, content and hit count
C20_ClearExpiredRemovesOnlyExpired ==
  \A c \in CallIds :
    ClearExpiredDone(c) =>
      /\ \A key \in Removed(c) : ExpiredAt(calls[c].pre[1][key], now)
      /\ calls[c].count = Cardinality(Removed(c))
      /\ \A key \in DOMAIN calls[c].pre[1] :
           ~ExpiredAt(calls[c].pre[1][key], now)
             => StoreView(key) = Some(calls[c].pre[1][key])

\* clear_expired returned 1 on a store of two entries: the expired one is
\* gone, the fresh one is stored with the hit count it had
C20_Witness ==
  \E c \in CallIds :
    /\ ClearExpiredDone(c)
    /\ calls[c].op = "clear_expired"
    /\ calls[c].count = 1
    /\ DOMAIN calls[c].pre[1] = OpsKeys
    /\ Cardinality(Removed(c)) = 1
    /\ \E key \in OpsKeys : StoreView(key) # None /\ StoreView(key)[1].hit_count = 1

(***************************************************************************)
(* Claims about invalidate_pattern, clear and delete.                      *)
(***************************************************************************)
\* invalidate_pattern has returned
PatternDone(c) ==
  /\ calls[c].op = "invalidate_pattern"
  /\ calls[c].pc = "done"
  /\ calls[c].err = ""

\* the keys of the two stored paths each pattern matches: d/* matches
\* d/a.md only, **/*.txt matches neither, *.md matches both (fnmatch's *
\* crosses the /)
KeysMatching(pattern) ==
  CASE pattern = <<"d","/","*">> -> {StoreKey}
    [] pattern = <<"*","*","/","*",".","t","x","t">> -> {}
    [] pattern = <<"*",".","m","d">> -> {StoreKey, RootKey}

ClearEnded(c) == calls[c].op = "clear" /\ calls[c].pc = "done"

\* C22 as stated: clear returns the number of entries it deleted, which is
\* every entry stored when it began, and afterwards none of them is stored
C22_ClearRemovesEveryEntry ==
  \A c \in CallIds :
    ClearEnded(c) =>
      /\ calls[c].err = ""
      /\ calls[c].count = Cardinality(DOMAIN calls[c].pre[1])
      /\ \A key \in DOMAIN calls[c].pre[1] : StoreView(key) = None

\* delete, or the invalidate that calls it, has ended
DeleteEnded(c) == calls[c].op \in {"delete", "invalidate"} /\ calls[c].pc = "done"

\* the directories above the key's files
KeyDirs(key) == Ancestors(ContentPath(key))

\* C23: delete returns true exactly when an artifact of the key was in place,
\* never raises, leaves no artifact of the key and so no entry for get, and,
\* when it removed one, leaves no empty directory above the key; at no point
\* is cache_dir itself handed to rmdir; a directory that is not empty, or
\* not there, ends the cleanup and changes nothing of the result or of the
\* other entries
C23_DeleteReportsAndCleansUp ==
  \A c \in CallIds :
    /\ calls[c].pc = "del_rmdir" => calls[c].parent # <<>>
    /\ DeleteEnded(c) =>
         /\ calls[c].err = ""
         /\ calls[c].deleted = (calls[c].had # {})
         /\ Artifacts(calls[c].key) = {}
         /\ StoreView(calls[c].key) = None
         /\ calls[c].deleted =>
              \A dir \in KeyDirs(calls[c].key) : dir \in dirs => ~DirEmpty(dir)
         /\ \A key \in DOMAIN calls[c].pre[1] :
              key # calls[c].key => StoreView(key) = Some(calls[c].pre[1][key])

\* delete of d/e/a.md returned true: d/e is gone, and d, which holds the
\* entry of d/b.md, is still there
C23_Witness ==
  \E c \in CallIds :
    /\ DeleteEnded(c)
    /\ calls[c].op = "delete"
    /\ calls[c].key = GenerateCacheKey(NestedPath, None)
    /\ calls[c].deleted
    /\ <<"d","/","e">> \notin dirs
    /\ <<"d">> \in dirs
    /\ StoreView(GenerateCacheKey(SiblingPath, None)) # None

(***************************************************************************)
(* Claims about fetches that run at the same time.                         *)
(***************************************************************************)
\* the call is a fetch that began with nothing stored under its key
BeganUncached(c) == calls[c].op = "fetch" /\ calls[c].pre = None

\* C24: of the fetches that begin while the key is uncached, none waits for
\* or shares the work of another.  One that returns a result that is not
\* from the cache has made one request of its own to the provider, returns
\* the answer to it, and has finished a put of its own; and when its put
\* finishes, the sidecar in place is that of the entry it built from the
\* provider's answer to it
C24_NoSingleFlight ==
  [][\A c \in CallIds :
       /\ (/\ BeganUncached(c)
           /\ calls[c].pc # "done"
           /\ calls'[c].pc = "done"
           /\ calls'[c].result # None
           /\ ~Get(calls'[c].result[1].metadata, "from_cache", FALSE))
          => /\ calls[c].pc = "f_stored"
             /\ Len(calls'[c].requests) = 1
             /\ calls'[c].requests[1].response = calls'[c].result
       /\ (/\ BeganUncached(c)
           /\ calls[c].pc # "f_stored"
           /\ calls'[c].pc = "f_stored")
          => /\ MetaPath(calls[c].key) \in DOMAIN files'
             /\ files'[MetaPath(calls[c].key)].json # None
             /\ files'[MetaPath(calls[c].key)].json[1].content_hash
                  = Some(Md5(calls'[c].requests[1].response[1].content))]_vars

\* two fetches that ran at the same time have both returned: each found
\* nothing stored, each was answered by the provider, with different content
C24_Witness ==
  /\ \A c \in Fetchers :
       /\ BeganUncached(c)
       /\ calls[c].pc = "done"
       /\ calls[c].result # None
       /\ Len(calls[c].requests) = 1
       /\ calls[c].requests[1].response = calls[c].result
  /\ calls[1].result[1].content # calls[2].result[1].content
  /\ calls[1].requests[1].at = calls[2].requests[1].at

(***************************************************************************)
(* Claims about CacheEntry.                                                *)
(***************************************************************************)
\* slot c holds an entry just constructed, refreshed or read back
HoldsEntry(c) == calls[c].op \in {"construct", "refresh", "from_dict"}

\* is_expired and is_fresh say of the entry, now and at every later time,
\* what its expires_at says
ExpiryFollowsExpiresAt(e) ==
  \A t \in now..MaxTime :
    /\ IsExpired(e, t) <=> (e.expires_at # None /\ t >= e.expires_at[1])
    /\ IsFresh(e, t) <=> ~IsExpired(e, t)

\* expires_at is fetched_at + ttl for a positive ttl; otherwise there is
\* none and the entry is expired at no later time
WindowFromTtl(e) ==
  IF e.ttl > 0 THEN e.expires_at = Some(e.fetched_at + e.ttl)
  ELSE e.expires_at = None /\ \A t \in now..MaxTime : ~IsExpired(e, t)

\* C25 as stated: is_expired holds exactly when expires_at is set and
\* reached, is_fresh is its negation, and every entry constructed or
\* refreshed has its expires_at from its ttl
C25_ExpiryFromTtlAlways ==
  \A c \in CallIds :
    (HoldsEntry(c) /\ calls[c].op # "from_dict")
      => ExpiryFollowsExpiresAt(calls[c].entry[1]) /\ WindowFromTtl(calls[c].entry[1])

\* C25: is_expired holds exactly when expires_at is set and reached, and
\* is_fresh is its negation; an entry refreshed, or constructed with no
\* expires_at argument, has its expires_at from its ttl; an entry
\* constructed with an expires_at argument keeps that one, whatever its ttl
C25_ExpiryFromTtlUnlessGiven ==
  \A c \in CallIds :
    (HoldsEntry(c) /\ calls[c].op # "from_dict")
      => /\ ExpiryFollowsExpiresAt(calls[c].entry[1])
         /\ IF calls[c].op = "construct" /\ calls[c].doc[1].expires_at # None
              THEN calls[c].entry[1].expires_at = calls[c].doc[1].expires_at
              ELSE WindowFromTtl(calls[c].entry[1])

\* an entry constructed with ttl 1 and no expires_at has reached its
\* expires_at, one tick after it was fetched, and is expired
C25_Witness ==
  \E c \in CallIds :
    /\ calls[c].op = "construct"
    /\ calls[c].doc[1].expires_at = None
    /\ calls[c].entry[1].ttl = 1
    /\ calls[c].entry[1].expires_at = Some(calls[c].entry[1].fetched_at + 1)
    /\ now = calls[c].entry[1].fetched_at + 1
    /\ IsExpired(calls[c].entry[1], now)

\* C26: after refresh(new_content, new_ttl) the entry has the new content
\* and its length as size, was fetched at the time of the call, has the new
\* ttl when one is given and the old one otherwise, has its expires_at from
\* that ttl, is not expired at the time of the call, and has the hit count
\* it had
C26_RefreshResetsTheWindow ==
  \A c \in CallIds :
    calls[c].op = "refresh" =>
      LET old == calls[c].pre[1]
          e == calls[c].entry[1]
          arg == calls[c].doc[1]
          ttl == IF arg.new_ttl # None THEN arg.new_ttl[1] ELSE old.ttl
      IN /\ e.content = arg.new_content
         /\ e.fetched_at = arg.at
         /\ Age(e, arg.at) = 0
         /\ e.ttl = ttl
         /\ e.expires_at = IF ttl > 0 THEN Some(arg.at + ttl) ELSE None
         /\ ~(e.expires_at # None /\ arg.at >= e.expires_at[1])
         /\ e.hit_count = old.hit_count
         /\ e.key = old.key

\* an entry that had expired was refreshed with other content and no new
\* ttl: it is fresh, with the hit count 1 it had
C26_Witness ==
  \E c \in CallIds :
    /\ calls[c].op = "refresh"
    /\ calls[c].doc[1].new_ttl = None
    /\ calls[c].pre[1].expires_at # None
    /\ calls[c].doc[1].at >= calls[c].pre[1].expires_at[1]
    /\ calls[c].pre[1].content # calls[c].entry[1].content
    /\ calls[c].entry[1].hit_count = 1
    /\ IsFresh(calls[c].entry[1], calls[c].doc[1].at)

\* C27 as stated: the size of every entry constructed, read back from its
\* dict or refreshed is the length of its content
C27_SizeIsContentLength ==
  \A c \in CallIds :
    HoldsEntry(c) => calls[c].entry[1].size = Len(calls[c].entry[1].content)

(***************************************************************************)
(* Claims about the key-to-path mapping.                                   *)
(***************************************************************************)
\* the number of "/" among the first n characters of s
Slashes(s, n) == Cardinality({i \in 1..n : s[i] = "/"})

\* the key with its unsafe characters replaced
Normalized(key) == [i \in 1..Len(key) |-> IF key[i] \in UnsafeChars THEN "_" ELSE key[i]]

\* the path has the key's segments when there are at most 4 of them, and
\* otherwise its first two followed by the rest joined with "_": every
\* separator after the second is an underscore
SegmentsKeptOrJoined(key, path) ==
  LET safe == Normalized(key)
  IN /\ Len(path) = Len(safe)
     /\ \A i \in 1..Len(safe) :
          path[i] = IF safe[i] = "/" /\ Slashes(safe, Len(safe)) > 3 /\ Slashes(safe, i) > 2
                      THEN "_" ELSE safe[i]

\* C28 as stated: every key maps to its segments, or to its first two and
\* the rest joined with "_" when it has more than 4, and no mapped path has
\* more than 4 segments
C28_SegmentsBoundedForEveryKey ==
  \A c \in CallIds :
    calls[c].op = "key_to_path" =>
      /\ SegmentsKeptOrJoined(calls[c].key, calls[c].path)
      /\ Slashes(calls[c].path, Len(calls[c].path)) <= 3

\* C28: a key of at most max_key_length characters maps to its segments, or
\* to its first two and the rest joined with "_" when it has more than 4; a
\* longer key maps to one segment; no mapped path has more than 4 segments
C28_SegmentsBoundedUpToMaxKeyLength ==
  \A c \in CallIds :
    calls[c].op = "key_to_path" =>
      /\ Len(calls[c].key) <= MaxKeyLength
           => SegmentsKeptOrJoined(calls[c].key, calls[c].path)
      /\ Len(calls[c].key) > MaxKeyLength
           => Slashes(calls[c].path, Len(calls[c].path)) = 0
      /\ Slashes(calls[c].path, Len(calls[c].path)) <= 3

\* a key of exactly max_key_length characters in six segments is mapped to
\* a path of three
C28_Witness ==
  \E c \in CallIds :
    /\ calls[c].op = "key_to_path"
    /\ Len(calls[c].key) = MaxKeyLength
    /\ Slashes(calls[c].key, Len(calls[c].key)) = 5
    /\ Slashes(calls[c].path, Len(calls[c].path)) = 2

\* C29 as stated: the path mapped from a key, of any length, has none of
\* the characters < > : " | ? *
C29_NoUnsafeCharacterInPath ==
  \A c \in CallIds :
    calls[c].op = "key_to_path" =>
      \A i \in 1..Len(calls[c].path) : calls[c].path[i] \notin UnsafeChars

(***************************************************************************)
(* Claims about TypeRegistry.                                              *)
(***************************************************************************)
\* the path as the registry matches it: separators turned, no leading "/"
NormalOf(path) ==
  IF path = RootedDocsPath THEN DocsApiPath
  ELSE IF path = BackslashDocsPath THEN DocsApiNestedPath
  ELSE path

\* the registered types with a pattern that matches the path
MatchingTypes(types, path) ==
  {i \in 1..Len(types) : MatchesPatterns(NormalOf(path), types[i].patterns)}

\* the paths of the model that a/**/z.md matches: "**" stands for no
\* segment in the first and for two in the second
NestedMatches == {NestedZeroPath, NestedTwoPath}

\* C30: get_ttl(path) is the ttl of the matching type of highest priority,
\* the one registered first among equals, and DEFAULT_TTL when no type
\* matches; with a/**/z.md as the only pattern, a/z.md and a/b/c/z.md
\* match and a/x.md does not
C30_GetTtlIsFirstMatchByPriority ==
  \A c \in CallIds :
    (calls[c].op = "registry" /\ calls[c].ttl # None) =>
      LET types == calls[c].doc[1]
          path == calls[c].path
          ttl == calls[c].ttl[1]
          matching == MatchingTypes(types, path)
      IN /\ matching = {} => ttl = DEFAULT_TTL
         /\ matching # {} =>
              \E i \in matching :
                /\ ttl = types[i].ttl
                /\ \A j \in matching :
                     \/ types[j].priority < types[i].priority
                     \/ types[j].priority = types[i].priority /\ j >= i
         /\ types = <<NestedType>> =>
              ttl = IF path \in NestedMatches THEN NestedType.ttl ELSE DEFAULT_TTL

\* docs/api/x.md in a registry with the built-in types and api-docs
\* registered after them: the built-in docs matches too and comes first in
\* the dict, and the ttl is that of api-docs
C30_Witness ==
  \E c \in CallIds :
    /\ calls[c].op = "registry"
    /\ calls[c].ttl = Some(ApiDocsType.ttl)
    /\ calls[c].path = DocsApiNestedPath
    /\ Len(calls[c].doc[1]) > Len(BUILT_IN_TYPES)
    /\ calls[c].doc[1][1].name = "docs"
    /\ calls[c].doc[1][1].ttl = TTL_DAY
    /\ 1 \in MatchingTypes(calls[c].doc[1], DocsApiNestedPath)
    /\ calls[c].doc[1][Len(calls[c].doc[1])] = ApiDocsType

(***************************************************************************)
(* Claims about the glob of invalidate_pattern.                            *)
(***************************************************************************)
\* the path matches the pattern segment by segment: "**" stands for any
\* number of segments, and every other pattern segment is matched against
\* one path segment, so that its "*" stays within that segment
MatchesBySegment(path, pattern) == MatchParts(S_Split(path, "/"), S_Split(pattern, "/"))

\* C31 as stated: every key invalidate_pattern removes matches the pattern
\* segment by segment, "*" never standing for a "/"
C31_StarStaysWithinOneSegment ==
  \A c \in CallIds :
    PatternDone(c) =>
      \A key \in Removed(c) : MatchesBySegment(key, calls[c].path)

(***************************************************************************)
(* Claims about keys and the paths they are stored at.                     *)
(***************************************************************************)
\* C32 as stated: two keys of at most max_key_length characters have
\* different artifact paths, what is stored under a key is an entry of
\* that key, and get(k) returns nothing or an entry whose key is k
C32_KeysDoNotShareAnEntry ==
  /\ \A k1, k2 \in CollideKeys :
       (k1 # k2 /\ \E c \in CallIds : calls[c].op = "put" /\ calls[c].key = k1)
         => ContentPath(k1) # ContentPath(k2) /\ MetaPath(k1) # MetaPath(k2)
  /\ \A c \in CallIds :
       (calls[c].op = "get" /\ calls[c].pc = "done" /\ calls[c].ret # None)
         => calls[c].ret[1].key = calls[c].key
  /\ Quiet => \A key \in CollideKeys :
                StoreView(key) # None => StoreView(key)[1].key = key

(***************************************************************************)
(* Claims about fetches that run at the same time on a stored entry.       *)
(***************************************************************************)
\* the call returned an answer of the provider, which it had stored
Refetched(c) ==
  /\ FetchDone(c)
  /\ Returned(c)
  /\ "from_cache" \notin DOMAIN calls[c].result[1].metadata

\* the call returned the stored entry as a fresh hit, asking the provider
\* nothing
ServedAsHit(c) ==
  /\ FetchDone(c)
  /\ Returned(c)
  /\ calls[c].requests = <<>>
  /\ HasTag(c, "from_cache", TRUE)
  /\ "stale" \notin DOMAIN calls[c].result[1].metadata

\* C33 as stated: when a fetch with force_refresh has stored the provider's
\* answer and the other fetch, a fresh hit, has asked the provider nothing,
\* the content stored is the content the refresh stored
C33_HitNeverRestoresOlderContent ==
  (calls[2].force_refresh /\ Refetched(2) /\ ServedAsHit(1)) =>
    /\ Stored(2) # None
    /\ Stored(2)[1].content = calls[2].result[1].content

\* C34 as stated: when two fetches served as fresh hits of the entry have
\* both returned, the stored hit count is 2 higher than when the first of
\* them began
C34_NoHitIsLost ==
  (ServedAsHit(1) /\ ServedAsHit(2) /\ calls[1].pre # None
     /\ calls[1].pre = calls[2].pre) =>
    /\ Stored(1) # None
    /\ Stored(1)[1].hit_count = calls[1].pre[1].hit_count + 2

(***************************************************************************)
(* Claims about a put that fails.                                          *)
(***************************************************************************)
\* put has raised CacheError WRITE_ERROR on a key that held a valid entry
PutFailed(c) ==
  /\ calls[c].op = "put"
  /\ calls[c].pc = "done"
  /\ calls[c].err = "WRITE_ERROR"
  /\ calls[c].pre # None

\* the temporary files of the call's two writes
TempPaths(c) ==
  {TempPath(ContentPath(calls[c].key), c), TempPath(MetaPath(calls[c].key), c)}

\* C35 as stated: after a put that raised WRITE_ERROR on a key that held a
\* valid entry, get returns that entry, and no temporary file of the put is
\* in the directory
C35_FailedPutLeavesPreviousEntry ==
  \A c \in CallIds :
    PutFailed(c) =>
      /\ StoreView(calls[c].key) = calls[c].pre
      /\ TempPaths(c) \cap DOMAIN files = {}

(***************************************************************************)
(* Claims about a sweep that runs at the same time as a fetch.             *)
(***************************************************************************)
\* the step is the first unlink of a delete that the sweep of cleanup makes
\* for a key it kept as expired
SweepDeletes(c) ==
  /\ calls[c].op = "cleanup"
  /\ calls[c].pc = "del_data"
  /\ calls[c].stack # <<>>
  /\ Head(calls[c].stack) = "sweep_next"
  /\ calls'[c].pc = "del_meta"

\* C36 as stated: no delete of the sweep is made while the entry stored
\* under its key is fresh
C36_SweepDeletesNoFreshEntry ==
  [][\A c \in CallIds :
       SweepDeletes(c) =>
         ~(Stored(c) # None /\ IsFresh(Stored(c)[1], now))]_vars

(***************************************************************************)
(* Claims about where the files of a key are.                              *)
(***************************************************************************)
PathsDone(c) == calls[c].op = "get_paths" /\ calls[c].pc = "done"

\* a file below cache_dir
InsideCacheDir(parts) ==
  /\ Len(parts) > Len(CacheDirParts)
  /\ SubSeq(parts, 1, Len(CacheDirParts)) = CacheDirParts

\* C37 as stated: for every key the content file and the metadata file are
\* files below cache_dir, and no directory that delete hands to rmdir is
\* cache_dir itself
C37_PathsStayInsideCacheDir ==
  \A c \in CallIds :
    PathsDone(c) =>
      /\ InsideCacheDir(Resolve(calls[c].path))
      /\ InsideCacheDir(Resolve(calls[c].ret))
      /\ \A d \in RmdirTargets(calls[c].path) : Resolve(d) # CacheDirParts

(***************************************************************************)
(* Claims about what one fetch does to the store and asks of the provider. *)
(***************************************************************************)
ServedStale(c) == FetchDone(c) /\ Returned(c) /\ HasTag(c, "stale", TRUE)

\* C38: a fetch that returns a result tagged stale leaves the store as the
\* call found it: an entry was stored when the call began, and the entry
\* stored when it ends is that entry, content, fetched_at, expires_at, ttl and
\* hit_count included
C38_StaleFallbackIsReadOnly ==
  \A c \in CallIds :
    ServedStale(c) =>
      /\ calls[c].pre # None
      /\ Stored(c) = calls[c].pre
      /\ \A f \in {"content", "fetched_at", "expires_at", "ttl", "hit_count"} :
           Stored(c)[1][f] = calls[c].pre[1][f]

\* a stale result served for an entry that had been hit, after the provider
\* failed for the second of two requests
C38_Witness ==
  \E c \in CallIds :
    /\ ServedStale(c)
    /\ calls[c].pre # None
    /\ calls[c].pre[1].hit_count >= 1
    /\ Len(calls[c].requests) = 2
    /\ calls[c].result[1].content = calls[c].pre[1].content

\* the call made a conditional request, which is to say it found the entry
\* stale when it looked
FoundStale(c) ==
  /\ FetchDone(c) /\ ~calls[c].force_refresh /\ calls[c].pre # None
  /\ calls[c].requests # <<>>

\* C39: a fetch asks the provider nothing when it finds a fresh entry and is
\* not forced, once on a miss or when forced, and for a stale entry once (a
\* conditional request that fails or is answered "not modified") or twice (a
\* conditional request answered with a change, then one plain request whose
\* answer is what is stored and returned); never more than twice
C39_RequestsBoundedByWhatIsFound ==
  \A c \in CallIds :
    FetchDone(c) =>
      /\ Len(calls[c].requests) <= 2
      /\ (~calls[c].force_refresh /\ calls[c].pre # None /\ IsFresh(calls[c].pre[1], now))
           => calls[c].requests = <<>>
      /\ (calls[c].force_refresh \/ calls[c].pre = None)
           => (Len(calls[c].requests) = 1 /\ ~calls[c].requests[1].conditional)
      /\ FoundStale(c)
           => /\ calls[c].requests[1].conditional
              /\ Len(calls[c].requests) = 1
                   <=> \/ calls[c].requests[1].response = None
                       \/ AnswersNotModified(calls[c].requests[1].response[1], calls[c].pre[1])
              /\ Len(calls[c].requests) = 2
                   => /\ ~calls[c].requests[2].conditional
                      /\ calls[c].requests[2].response # None
                           => /\ Returned(c)
                              /\ calls[c].result[1].content = calls[c].requests[2].response[1].content
                              /\ Stored(c) # None
                              /\ Stored(c)[1].content = calls[c].requests[2].response[1].content

\* a stale entry took two requests, and the answer to the second, other
\* content than the entry had, is stored
C39_Witness ==
  \E c \in CallIds :
    /\ FoundStale(c)
    /\ Len(calls[c].requests) = 2
    /\ calls[c].requests[2].response # None
    /\ Stored(c) # None
    /\ Stored(c)[1].content = calls[c].requests[2].response[1].content
    /\ Stored(c)[1].content # calls[c].pre[1].content

(***************************************************************************)
(* Claims about the cache key and the provider.                            *)
(***************************************************************************)
\* call d stored the answer of its provider, and the entry is fresh still
StoredFresh(d) ==
  /\ FetchDone(d) /\ Returned(d) /\ calls[d].requests # <<>>
  /\ LastRequest(d).response # None
  /\ calls[d].ttl # None
  /\ now < LastRequest(d).at + calls[d].ttl[1]

\* call c is the unforced fetch, through another provider, of a path whose
\* key call d stored
OtherProvider(c, d) ==
  /\ c # d
  /\ FetchDone(c) /\ ~calls[c].force_refresh
  /\ GenerateCacheKey(calls[c].path, None) = GenerateCacheKey(calls[d].path, None)
  /\ calls[c].storage # calls[d].storage

\* C40: the key of a fetch is fixed by its path, whatever the provider: two
\* fetches of one path have one key, and a fresh entry stored by a fetch
\* through one provider is returned as a hit, the provider not asked, to a
\* fetch of the path through another provider
C40_KeyIndependentOfProvider ==
  \A c, d \in CallIds :
    /\ (calls[c].op = "fetch" /\ calls[d].op = "fetch" /\ calls[c].path = calls[d].path)
         => calls[c].key = calls[d].key
    /\ (StoredFresh(d) /\ OtherProvider(c, d))
         => /\ Returned(c)
            /\ calls[c].requests = <<>>
            /\ HasTag(c, "from_cache", TRUE)
            /\ calls[c].result[1].content = calls[d].result[1].content
            /\ calls[c].pre # None
            /\ calls[c].pre[1].source = Some(calls[d].storage)

\* a fetch through one provider was served the entry a fetch through the
\* other provider had stored
C40_Witness ==
  \E c, d \in CallIds :
    /\ StoredFresh(d) /\ OtherProvider(c, d)
    /\ calls[c].storage = "http" /\ calls[d].storage = "local"
    /\ calls[c].requests = <<>>
    /\ Returned(c)
    /\ calls[c].result[1].content = calls[d].result[1].content

====
